---- MODULE Spec2Model ----
(***************************************************************************)
(* Model of the common-investor backend: the metrics engine                *)
(* (app/metrics/compute.py), the Four-Ms scores (app/nlp/fourm/service.py),*)
(* the valuation engine (app/valuation) and the API routes that call them. *)
(*                                                                         *)
(* Numbers.  Python floats are modelled in fixed point: a ratio, rate or   *)
(* score r is the integer r * One (thousandths); money and per-share facts *)
(* of the store are whole units.  A division rounds down to a thousandth.  *)
(* Python's None is the empty tuple and a present value v is <<v>>, so     *)
(* arithmetic on a missing value is an evaluation error, as in Python.     *)
(***************************************************************************)
EXTENDS Integers, Sequences, FiniteSets, TLC

VARIABLES
    company,        \* table company: rows [id, cik, ticker]
    filing,         \* table filing: rows [id, cik, accession]
    statement_is,   \* table statement_is: rows [id, filing_id, fy, revenue, ...]
    statement_bs,   \* table statement_bs: rows [id, filing_id, fy, cash, ...]
    statement_cf,   \* table statement_cf: rows [id, filing_id, fy, cfo, ...]
    price_snapshot, \* table price_snapshot: rows [id, company_id, price]
    alert_rule,     \* table alert_rule: rows [id, company_id, rule_type, threshold, enabled]
    meaning_note,   \* table meaning_note: rows [id, company_id, evidence_type]
    requests,       \* the refresh requests in flight: each worker's position
    ingests,        \* ingestions run so far
    inp,    \* the arguments of the last call (a record; its fields depend on op)
    op,     \* "idle" before any call, then the name of the function that ran last
    out     \* the value returned (or the exception raised) by that call

annex == <<alert_rule, meaning_note, requests>>
store == <<company, filing, statement_is, statement_bs, statement_cf, price_snapshot, ingests,
           alert_rule, meaning_note, requests>>
vars == <<company, filing, statement_is, statement_bs, statement_cf, price_snapshot,
          ingests, alert_rule, meaning_note, requests, inp, op, out>>

-----------------------------------------------------------------------------
(* Optional values *)

None == <<>>
Some(v) == <<v>>
Get(o) == o[1]
Opt(S) == {None} \cup {Some(v) : v \in S}

(* Fixed point: 1.0 *)
One == 1000

Max(a, b) == IF a >= b THEN a ELSE b
Min(a, b) == IF a <= b THEN a ELSE b

(* a / b of two numbers of the same scale, as a fixed-point ratio rounded  *)
(* down: (a * One) \div b, with a split into quotient and remainder to    *)
(* stay within 32 bits; b # 0                                              *)
FxDivPos(a, b) == (a \div b) * One + ((a % b) * One) \div b

FxDiv(a, b) == IF b > 0 THEN FxDivPos(a, b) ELSE FxDivPos(0 - a, 0 - b)

(* a * b of two fixed-point numbers, rounded down: (a * b) \div One, with  *)
(* a split into its whole and fractional parts to stay within 32 bits     *)
FxMul(a, b) == (a \div One) * b + ((a % One) * b) \div One

-----------------------------------------------------------------------------
(* app/metrics/compute.py: cagr *)

(* (r/One)^k in fixed point, each product rounded down; it stops growing   *)
(* once above limit, which is all the root search asks of it.              *)
RECURSIVE PowFx(_, _, _)
PowFx(r, k, limit) ==
    IF k = 0 THEN One
    ELSE LET p == PowFx(r, k - 1, limit)
         IN  IF p > limit THEN p ELSE (p * r) \div One

(* The greatest r in lo..hi-1 with (r/One)^years * first <= last: the      *)
(* fixed-point value of (last / first) ** (1.0 / years).                   *)
RECURSIVE RootSearch(_, _, _, _, _)
RootSearch(lo, hi, first, last, years) ==
    IF hi - lo <= 1 THEN lo
    ELSE LET mid == (lo + hi) \div 2
         IN  IF PowFx(mid, years, last * One) * first <= last * One
             THEN RootSearch(mid, hi, first, last, years)
             ELSE RootSearch(lo, mid, first, last, years)

NthRoot(first, last, years) == RootSearch(0, last * One + 1, first, last, years)

cagr_NoBaseGuard(first, last, years) ==
    IF first = None \/ last = None \/ years <= 0 \/ Get(last) <= 0
    THEN None
    ELSE IF Get(first) = 0 THEN Some(0)
    ELSE Some(NthRoot(Max(Get(first), 0 - Get(first)), Get(last), years) - One)

cagr(first, last, years) ==
    IF first = None \/ last = None \/ years <= 0 \/ Get(first) <= 0 \/ Get(last) <= 0
    THEN None
    ELSE Some(NthRoot(Get(first), Get(last), years) - One)

-----------------------------------------------------------------------------
(* app/metrics/compute.py: _calculate_window_cagr *)

(* next((i for ... if cond), None) over ascending / descending indices:   *)
(* S is the set of indices that satisfy cond                               *)
FirstIndex(S) ==
    IF S = {} THEN None ELSE Some(CHOOSE i \in S : \A j \in S : i <= j)

LastIndex(S) ==
    IF S = {} THEN None ELSE Some(CHOOSE i \in S : \A j \in S : i >= j)

_calculate_window_cagr_WholeSeries(years, values, window_years) ==
    IF Len(years) = 0 \/ Len(values) = 0 \/ Len(years) # Len(values) THEN None
    ELSE
    LET first_idx == FirstIndex({i \in 1..Len(years) : values[i] # None})
        last_idx  == LastIndex({i \in 1..Len(years) : values[i] # None})
    IN  IF first_idx = None \/ last_idx = None \/ Get(last_idx) <= Get(first_idx)
        THEN None
        ELSE cagr(values[Get(first_idx)], values[Get(last_idx)],
                  years[Get(last_idx)] - years[Get(first_idx)])

(* A window that reaches back window_years years, one more than line 34   *)
_calculate_window_cagr_WideWindow(years, values, window_years) ==
    IF Len(years) = 0 \/ Len(values) = 0 \/ Len(years) # Len(values) THEN None
    ELSE
    LET last_year  == years[Len(years)]
        first_year == Max(years[1], last_year - window_years)
        first_idx  == FirstIndex({i \in 1..Len(years) : years[i] >= first_year /\ values[i] # None})
        last_idx   == LastIndex({i \in 1..Len(years) : years[i] <= last_year /\ values[i] # None})
    IN  IF first_idx = None \/ last_idx = None \/ Get(last_idx) <= Get(first_idx)
        THEN None
        ELSE cagr(values[Get(first_idx)], values[Get(last_idx)],
                  years[Get(last_idx)] - years[Get(first_idx)])

_calculate_window_cagr_StrictStart(years, values, window_years) ==
    IF Len(years) = 0 \/ Len(values) = 0 \/ Len(years) # Len(values) THEN None
    ELSE
    LET last_year  == years[Len(years)]
        first_year == Max(years[1], last_year - (window_years - 1))
        first_idx  == FirstIndex({i \in 1..Len(years) : years[i] > first_year /\ values[i] # None})
        last_idx   == LastIndex({i \in 1..Len(years) : values[i] # None})
    IN  IF first_idx = None \/ last_idx = None \/ Get(last_idx) <= Get(first_idx)
        THEN None
        ELSE cagr(values[Get(first_idx)], values[Get(last_idx)],
                  years[Get(last_idx)] - years[Get(first_idx)])

_calculate_window_cagr(years, values, window_years) ==
    IF Len(years) = 0 \/ Len(values) = 0 \/ Len(years) # Len(values) THEN None
    ELSE
    LET last_year  == years[Len(years)]
        first_year == Max(years[1], last_year - (window_years - 1))
        first_idx  == FirstIndex({i \in 1..Len(years) : years[i] >= first_year /\ values[i] # None})
        last_idx   == LastIndex({i \in 1..Len(years) : years[i] <= last_year /\ values[i] # None})
    IN  IF first_idx = None \/ last_idx = None \/ Get(last_idx) <= Get(first_idx)
        THEN None
        ELSE LET span_years == years[Get(last_idx)] - years[Get(first_idx)]
             IN  IF span_years <= 0 THEN None
                 ELSE cagr(values[Get(first_idx)], values[Get(last_idx)], span_years)

-----------------------------------------------------------------------------
(* Bounds of the model *)

MaxYear == 10        \* fiscal years are 0..MaxYear (offsets from a base year)
MaxLen  == 3         \* fiscal years in one company's series
MaxIngests == 1      \* ingestions in one behaviour

FiscalYears == 0..MaxYear

(* A stored fact: absent, negative, zero or positive *)
FactValues == {-2, 0, 1, 2, 4}

(* Strictly ascending year lists of length 0..MaxLen *)
AscendingYears ==
    {ys \in UNION {[1..n -> FiscalYears] : n \in 0..MaxLen} :
        \A i \in 1..(Len(ys) - 1) : ys[i] < ys[i + 1]}

(* The workers that serve requests side by side *)
Workers == {1, 2}

(* The store after the migrations, before any ingestion *)
EmptyStore ==
    /\ company = {}
    /\ filing = {}
    /\ statement_is = {}
    /\ statement_bs = {}
    /\ statement_cf = {}
    /\ price_snapshot = {}
    /\ ingests = 0
    /\ alert_rule = {}
    /\ meaning_note = {}
    /\ requests = [w \in Workers |-> [pc |-> "idle"]]

(* The window widths the callers pass: compute.py lines 130-133, 419-426 *)
Windows == {1, 3, 5, 10}

-----------------------------------------------------------------------------
(* app/ingest/sec.py: the SEC side and the ingestion *)

(* ticker_map(): the SEC's ticker -> CIK table *)
(* AAA and AAX are two share classes of the company with CIK 1 *)
TickerMap == [t \in {"AAA", "AAX", "BBB"} |-> IF t = "BBB" THEN 2 ELSE 1]

(* The tickers the callers pass: two listed companies and an unlisted one *)
Tickers == {"AAA", "BBB", "ZZZ"}

(* The company facts of one fiscal year, as _annual_value reads them: one  *)
(* optional value per statement field.                                     *)
NoFacts ==
    [revenue |-> None, cogs |-> None, gross_profit |-> None, ebit |-> None,
     interest_expense |-> None, taxes |-> None, eps_diluted |-> None,
     shares_diluted |-> None,
     cash |-> None, total_debt |-> None, shareholder_equity |-> None,
     cfo |-> None, capex |-> None, buybacks |-> None, dividends |-> None]

(* years (sec.py 278-289): a fiscal year is ingested when the revenue or   *)
(* the EPS facts hold a 10-K item for it                                   *)
HasYearItem(yf) == yf.revenue # None \/ yf.eps_diluted # None

(* The 1-based place of y in the sorted year list *)
Rank(y, Y) == Cardinality({z \in Y : z <= y})

Accession(cik, fy) == <<"FACTS", cik, fy>>

(* upsert_company: INSERT ... ON CONFLICT (cik) DO UPDATE SET ticker *)
upsert_company(cik, ticker) ==
    IF \E c \in company : c.cik = cik
    THEN {IF c.cik = cik THEN [c EXCEPT !.ticker = ticker] ELSE c : c \in company}
    ELSE company \cup {[id |-> Cardinality(company) + 1, cik |-> cik, ticker |-> ticker]}

(* upsert_filing: INSERT ... ON CONFLICT (accession) DO NOTHING RETURNING  *)
(* id, for every year of the ingestion: the years that get a new filing    *)
NewFilingYears(cik, years) ==
    {fy \in years : ~ \E f \in filing : f.accession = Accession(cik, fy)}

(* An upsert_filing that returns the id of the filing on file when the     *)
(* accession exists (ON CONFLICT ... DO UPDATE ... RETURNING id)           *)
upsert_filing_id_Existing(cik, years, fy) ==
    IF fy \in NewFilingYears(cik, years)
    THEN Some(Cardinality(filing) + Rank(fy, NewFilingYears(cik, years)))
    ELSE Some((CHOOSE f \in filing : f.accession = Accession(cik, fy)).id)

upsert_filing_id(cik, years, fy) ==
    IF fy \in NewFilingYears(cik, years)
    THEN Some(Cardinality(filing) + Rank(fy, NewFilingYears(cik, years)))
    ELSE None

(* ingest_companyfacts_richer_by_ticker, with facts the company facts the  *)
(* SEC serves: a function from the fiscal years to their values. A fiscal  *)
(* year is an offset from a base year, so the test `if fy` of line 287     *)
(* passes for every one of them, 0 included.                               *)
ingest_run(ticker, facts) ==
    /\ ingests' = ingests + 1
    /\ inp' = [ticker |-> ticker]
    /\ op' = "ingest_companyfacts_richer_by_ticker"
    /\ UNCHANGED annex
    /\ IF ticker \notin DOMAIN TickerMap
       THEN /\ out' = [exc |-> "ValueError"]
            /\ UNCHANGED <<company, filing, statement_is, statement_bs,
                           statement_cf, price_snapshot>>
       ELSE LET cik   == TickerMap[ticker]
                years == DOMAIN facts
            IN  /\ company' = upsert_company(cik, ticker)
                /\ filing' = filing \cup
                     {[id |-> Get(upsert_filing_id(cik, years, fy)), cik |-> cik,
                       accession |-> Accession(cik, fy)] :
                          fy \in NewFilingYears(cik, years)}
                /\ statement_is' = statement_is \cup
                     {[id |-> Cardinality(statement_is) + Rank(fy, years),
                       filing_id |-> upsert_filing_id(cik, years, fy), fy |-> fy,
                       revenue |-> facts[fy].revenue, cogs |-> facts[fy].cogs,
                       gross_profit |-> facts[fy].gross_profit,
                       ebit |-> facts[fy].ebit,
                       interest_expense |-> facts[fy].interest_expense,
                       taxes |-> facts[fy].taxes,
                       eps_diluted |-> facts[fy].eps_diluted,
                       shares_diluted |-> facts[fy].shares_diluted] : fy \in years}
                /\ statement_bs' = statement_bs \cup
                     {[id |-> Cardinality(statement_bs) + Rank(fy, years),
                       filing_id |-> upsert_filing_id(cik, years, fy), fy |-> fy,
                       cash |-> facts[fy].cash, total_debt |-> facts[fy].total_debt,
                       shareholder_equity |-> facts[fy].shareholder_equity] :
                          fy \in years}
                /\ statement_cf' = statement_cf \cup
                     {[id |-> Cardinality(statement_cf) + Rank(fy, years),
                       filing_id |-> upsert_filing_id(cik, years, fy), fy |-> fy,
                       cfo |-> facts[fy].cfo, capex |-> facts[fy].capex,
                       buybacks |-> facts[fy].buybacks,
                       dividends |-> facts[fy].dividends] : fy \in years}
                /\ out' = [ticker |-> ticker, cik |-> cik, years |-> years]
                /\ UNCHANGED price_snapshot

(* One ingestion, in a store that has seen fewer than MaxIngests *)
ingest_companyfacts_richer_by_ticker(ticker, facts) ==
    /\ ingests < MaxIngests
    /\ ingest_run(ticker, facts)

(* The rows _insert_statement writes for the years Y of an ingestion *)
IsRows(cik, years, facts, Y) ==
    {[id |-> Cardinality(statement_is) + Rank(fy, Y),
      filing_id |-> upsert_filing_id(cik, years, fy), fy |-> fy,
      revenue |-> facts[fy].revenue, cogs |-> facts[fy].cogs,
      gross_profit |-> facts[fy].gross_profit, ebit |-> facts[fy].ebit,
      interest_expense |-> facts[fy].interest_expense, taxes |-> facts[fy].taxes,
      eps_diluted |-> facts[fy].eps_diluted,
      shares_diluted |-> facts[fy].shares_diluted] : fy \in Y}

BsRows(cik, years, facts, Y) ==
    {[id |-> Cardinality(statement_bs) + Rank(fy, Y),
      filing_id |-> upsert_filing_id(cik, years, fy), fy |-> fy,
      cash |-> facts[fy].cash, total_debt |-> facts[fy].total_debt,
      shareholder_equity |-> facts[fy].shareholder_equity] : fy \in Y}

CfRows(cik, years, facts, Y) ==
    {[id |-> Cardinality(statement_cf) + Rank(fy, Y),
      filing_id |-> upsert_filing_id(cik, years, fy), fy |-> fy,
      cfo |-> facts[fy].cfo, capex |-> facts[fy].capex,
      buybacks |-> facts[fy].buybacks, dividends |-> facts[fy].dividends] : fy \in Y}

(* An ingestion that stops (the process dies, or an execute raises) in the *)
(* loop of lines 291-300, in year fy, after upsert_filing and done of the  *)
(* three _insert_statement calls: every execute is a transaction of its    *)
(* own (db/session.py), so what was written stays.                         *)
ingest_interrupted_run(ticker, facts, fy, done) ==
    /\ ticker \in DOMAIN TickerMap
    /\ fy \in DOMAIN facts
    /\ done \in 0..2
    /\ ingests' = ingests + 1
    /\ inp' = [ticker |-> ticker]
    /\ op' = "ingest_interrupted"
    /\ out' = [exc |-> "interrupted"]
    /\ LET cik     == TickerMap[ticker]
           years   == DOMAIN facts
           reached == {y \in years : y <= fy}
           full    == {y \in years : y < fy}
       IN  /\ company' = upsert_company(cik, ticker)
           /\ filing' = filing \cup
                {[id |-> Get(upsert_filing_id(cik, years, y)), cik |-> cik,
                  accession |-> Accession(cik, y)] :
                     y \in NewFilingYears(cik, reached)}
           /\ statement_is' = statement_is \cup
                IsRows(cik, years, facts, full \cup (IF done >= 1 THEN {fy} ELSE {}))
           /\ statement_bs' = statement_bs \cup
                BsRows(cik, years, facts, full \cup (IF done >= 2 THEN {fy} ELSE {}))
           /\ statement_cf' = statement_cf \cup CfRows(cik, years, facts, full)
    /\ UNCHANGED <<price_snapshot, annex>>

(* One interrupted ingestion, in a store that has seen fewer than          *)
(* MaxIngests                                                              *)
ingest_interrupted(ticker, facts, fy, done) ==
    /\ ingests < MaxIngests
    /\ ingest_interrupted_run(ticker, facts, fy, done)

-----------------------------------------------------------------------------
(* The queries of app/metrics/compute.py *)

(* ORDER BY k ASC: the rows of S, each with a sort key k, as a sequence *)
RECURSIVE SortByKey(_)
SortByKey(S) ==
    IF S = {} THEN <<>>
    ELSE LET r == CHOOSE x \in S : \A y \in S : x.k <= y.k
         IN  <<r>> \o SortByKey(S \ {r})

(* FROM statement_xx s JOIN filing f ON s.filing_id = f.id WHERE f.cik = :cik *)
JoinFiling(table, cik) ==
    {s \in table : \E f \in filing : f.cik = cik /\ s.filing_id = Some(f.id)}

(* _fetch_is_series: (fy, revenue, eps_diluted, ebit) ORDER BY fy ASC *)
_fetch_is_series(cik) ==
    LET rows == SortByKey({[k |-> si.fy, row |-> si] : si \in JoinFiling(statement_is, cik)})
    IN  [i \in 1..Len(rows) |->
            [fy |-> rows[i].row.fy, revenue |-> rows[i].row.revenue,
             eps |-> rows[i].row.eps_diluted, ebit |-> rows[i].row.ebit]]

(* revenue_eps_series: (fy, revenue, eps) ORDER BY fy ASC *)
revenue_eps_series(cik) ==
    LET rows == SortByKey({[k |-> si.fy, row |-> si] : si \in JoinFiling(statement_is, cik)})
    IN  [i \in 1..Len(rows) |->
            [fy |-> rows[i].row.fy, revenue |-> rows[i].row.revenue,
             eps |-> rows[i].row.eps_diluted]]

(* A LEFT JOIN's right side: the matching rows, or one all-NULL row *)
NullRow == [null |-> TRUE]
LeftJoin(matches) == IF matches = {} THEN {NullRow} ELSE matches
Col(row, field) == IF row = NullRow THEN None ELSE row[field]
FyCol(row) == IF row = NullRow THEN None ELSE Some(row.fy)

(* _fetch_cf_bs_for_roic: filing LEFT JOIN statement_cf LEFT JOIN          *)
(* statement_is (same filing, si.fy = cf.fy) LEFT JOIN statement_bs (same  *)
(* filing, bs.fy = cf.fy), ORDER BY COALESCE(cf.fy, si.fy) ASC, NULLs last *)
CfBsJoin(cik) ==
    UNION {
      UNION {
        {[f |-> f, cf |-> cf, si |-> si, bs |-> bs] :
            si \in LeftJoin({x \in statement_is :
                        cf # NullRow /\ x.filing_id = Some(f.id) /\ x.fy = cf.fy}),
            bs \in LeftJoin({x \in statement_bs :
                        cf # NullRow /\ x.filing_id = Some(f.id) /\ x.fy = cf.fy})} :
        cf \in LeftJoin({x \in statement_cf : x.filing_id = Some(f.id)})} :
      f \in {g \in filing : g.cik = cik}}

Coalesce(a, b) == IF a # None THEN a ELSE b

_fetch_cf_bs_for_roic(cik) ==
    LET rows == SortByKey({[k |-> IF Coalesce(FyCol(j.cf), FyCol(j.si)) = None
                                  THEN MaxYear + 1
                                  ELSE Get(Coalesce(FyCol(j.cf), FyCol(j.si))),
                            row |-> j] : j \in CfBsJoin(cik)})
    IN  [i \in 1..Len(rows) |->
            LET j == rows[i].row
            IN  [fy      |-> Coalesce(FyCol(j.cf), FyCol(j.si)),
                 cfo     |-> Col(j.cf, "cfo"),
                 capex   |-> Col(j.cf, "capex"),
                 shares  |-> Col(j.si, "shares_diluted"),
                 ebit    |-> Col(j.si, "ebit"),
                 taxes   |-> Col(j.si, "taxes"),
                 debt    |-> Col(j.bs, "total_debt"),
                 equity  |-> Col(j.bs, "shareholder_equity"),
                 cash    |-> Col(j.bs, "cash"),
                 revenue |-> Col(j.si, "revenue")]]

-----------------------------------------------------------------------------
(* app/metrics/compute.py: roic_series *)

Abs(x) == IF x >= 0 THEN x ELSE 0 - x

DefaultTaxRate == 210      \* 0.21
MaxTaxRate     == 350      \* 0.35

(* Lines 182-185: the rate nopat is computed with *)
roic_tax_rate_Unclamped(ebit, taxes) ==
    IF taxes # None /\ ebit # 0
    THEN FxDiv(Get(taxes), ebit)
    ELSE DefaultTaxRate

roic_tax_rate(ebit, taxes) ==
    IF taxes # None /\ ebit # 0
    THEN Max(0, Min(MaxTaxRate, FxDiv(Get(taxes), Abs(ebit))))
    ELSE DefaultTaxRate

(* Lines 175-188: the ROIC of one derived year record *)
roic_of(r) ==
    IF r.ebit # None /\ r.equity # None /\ r.debt # None /\ r.cash # None
    THEN LET nopat   == Get(r.ebit) * (One - roic_tax_rate(Get(r.ebit), r.taxes))
             inv_cap == Get(r.equity) + Get(r.debt) - Get(r.cash)
         IN  IF inv_cap # 0 THEN Some(FxDiv(nopat, inv_cap * One)) ELSE None
    ELSE None

roic_series(cik) ==
    LET rows == _fetch_cf_bs_for_roic(cik)
        kept == SelectSeq(rows, LAMBDA r : r.fy # None)
    IN  [i \in 1..Len(kept) |-> [fy |-> Get(kept[i].fy), roic |-> roic_of(kept[i])]]

-----------------------------------------------------------------------------
(* app/metrics/compute.py: growth, EPS and owner earnings *)

(* float(x) of a stored whole-unit value, as a fixed-point number *)
ToFx(v) == v * One

(* Python truthiness of an optional number: None and 0 are falsy *)
Truthy(o) == o # None /\ Get(o) # 0

(* a or b *)
PyOr(a, b) == IF Truthy(a) THEN a ELSE b

NoGrowth ==
    [rev_cagr_5y |-> None, rev_cagr_10y |-> None,
     eps_cagr_5y |-> None, eps_cagr_10y |-> None]

compute_growth_metrics(cik) ==
    LET series == _fetch_is_series(cik)
    IN  IF Len(series) < 2 THEN NoGrowth
        ELSE LET years == [i \in 1..Len(series) |-> series[i].fy]
                 revs  == [i \in 1..Len(series) |-> series[i].revenue]
                 eps   == [i \in 1..Len(series) |-> series[i].eps]
             IN  [rev_cagr_5y  |-> _calculate_window_cagr(years, revs, 5),
                  rev_cagr_10y |-> _calculate_window_cagr(years, revs, 10),
                  eps_cagr_5y  |-> _calculate_window_cagr(years, eps, 5),
                  eps_cagr_10y |-> _calculate_window_cagr(years, eps, 10)]

(* A latest_eps that reads the EPS of the latest fiscal year only *)
latest_eps_LatestYearOnly(cik) ==
    LET rows == JoinFiling(statement_is, cik)
    IN  IF rows = {} THEN None
        ELSE LET top == CHOOSE x \in rows : \A y \in rows : x.fy >= y.fy
             IN  IF top.eps_diluted = None THEN None
                 ELSE Some(ToFx(Get(top.eps_diluted)))

(* latest_eps: ... WHERE si.eps_diluted IS NOT NULL ORDER BY si.fy DESC LIMIT 1 *)
latest_eps(cik) ==
    LET rows == {si \in JoinFiling(statement_is, cik) : si.eps_diluted # None}
    IN  IF rows = {} THEN None
        ELSE LET top == CHOOSE x \in rows : \A y \in rows : x.fy >= y.fy
             IN  Some(ToFx(Get(top.eps_diluted)))

(* Lines 141-147: the owner earnings of one derived year record *)
owner_earnings_of(r) ==
    LET oe == IF r.cfo # None /\ r.capex # None
              THEN Some(Get(r.cfo) - Get(r.capex)) ELSE None
    IN  [fy |-> Get(r.fy),
         owner_earnings |-> oe,
         owner_earnings_ps |-> IF oe # None /\ Truthy(r.shares)
                               THEN Some(FxDiv(Get(oe), Get(r.shares)))
                               ELSE None]

owner_earnings_series(cik) ==
    LET kept == SelectSeq(_fetch_cf_bs_for_roic(cik), LAMBDA r : r.fy # None)
    IN  [i \in 1..Len(kept) |-> owner_earnings_of(kept[i])]

latest_owner_earnings_ps(cik) ==
    LET ser  == owner_earnings_series(cik)
        last == LastIndex({i \in 1..Len(ser) : ser[i].owner_earnings_ps # None})
    IN  IF last = None THEN None ELSE ser[Get(last)].owner_earnings_ps

(* Lines 282-310: the series is first cut down to the years that have an  *)
(* owner-earnings value, and the five-year window is laid from the last    *)
(* of those years                                                          *)
latest_owner_earnings_growth(cik) ==
    LET series  == owner_earnings_series(cik)
        oe_vals == SelectSeq(series, LAMBDA x : x.owner_earnings # None)
    IN  IF Len(oe_vals) < 2 THEN None
        ELSE
        LET last_year  == oe_vals[Len(oe_vals)].fy
            first_year == Max(oe_vals[1].fy, last_year - 4)
            first_idx  == FirstIndex({i \in 1..Len(oe_vals) : oe_vals[i].fy >= first_year})
            last_idx   == Len(oe_vals)
        IN  IF first_idx = None \/ last_idx <= Get(first_idx) THEN None
            ELSE LET span_years == oe_vals[last_idx].fy - oe_vals[Get(first_idx)].fy
                 IN  IF span_years <= 0 THEN None
                     ELSE cagr(oe_vals[Get(first_idx)].owner_earnings,
                               oe_vals[last_idx].owner_earnings, span_years)

-----------------------------------------------------------------------------
(* app/valuation/core.py *)

(* x ** 10.0 for a fixed-point x >= 0 *)
Pow10(x) == PowFx(x, 10, 1000 * One)

MaxGrowth == 500           \* 0.5: the cap of g in sticker_and_mos
MinPE     == 5             \* 5.0: the floor of the terminal P/E

(* A sticker price whose growth is floored at 0 but not capped at 0.5 *)
sticker_and_mos_NoCap(eps0, g0, pe_cap, discount, mos_pct) ==
    LET g              == Max(0, g0)
        future_eps     == FxMul(eps0, Pow10(One + g))
        recommended_pe == Min(ToFx(pe_cap), Max(ToFx(MinPE), 2 * (g * 100)))
        future_price   == FxMul(future_eps, recommended_pe)
        sticker        == FxDiv(future_price, Pow10(One + discount))
        mos_price      == FxMul(sticker, One - mos_pct)
    IN  [future_eps |-> future_eps, terminal_pe |-> recommended_pe,
         future_price |-> future_price, sticker |-> sticker, mos_price |-> mos_price]

sticker_and_mos(eps0, g0, pe_cap, discount, mos_pct) ==
    LET g              == Max(0, Min(g0, MaxGrowth))
        future_eps     == FxMul(eps0, Pow10(One + g))
        recommended_pe == Min(ToFx(pe_cap), Max(ToFx(MinPE), 2 * (g * 100)))
        future_price   == FxMul(future_eps, recommended_pe)
        sticker        == FxDiv(future_price, Pow10(One + discount))
        mos_price      == FxMul(sticker, One - mos_pct)
    IN  [future_eps |-> future_eps, terminal_pe |-> recommended_pe,
         future_price |-> future_price, sticker |-> sticker, mos_price |-> mos_price]

ten_cap_price(owner_earnings_per_share) ==
    IF owner_earnings_per_share = None \/ Get(owner_earnings_per_share) <= 0
    THEN None
    ELSE Some(FxDiv(Get(owner_earnings_per_share), 100))

(* A loop that asks for more than the price: cum > purchase_price *)
RECURSIVE payback_loop_Strict(_, _, _, _, _, _)
payback_loop_Strict(year, cum, cur, purchase_price, growth, max_years) ==
    IF year > max_years THEN None
    ELSE IF cum + cur > purchase_price THEN Some(year)
    ELSE payback_loop_Strict(year + 1, cum + cur, FxMul(cur, One + Max(0, growth)),
                             purchase_price, growth, max_years)

(* The loop of payback_time from year on, with cum and cur as they stand *)
RECURSIVE payback_loop(_, _, _, _, _, _)
payback_loop(year, cum, cur, purchase_price, growth, max_years) ==
    IF year > max_years THEN None
    ELSE IF cum + cur >= purchase_price THEN Some(year)
    ELSE payback_loop(year + 1, cum + cur, FxMul(cur, One + Max(0, growth)),
                      purchase_price, growth, max_years)

payback_time(purchase_price, owner_earnings_ps, growth, max_years) ==
    IF purchase_price <= 0 \/ owner_earnings_ps = None \/ Get(owner_earnings_ps) <= 0
    THEN None
    ELSE payback_loop(1, 0, Get(owner_earnings_ps), purchase_price, growth, max_years)

-----------------------------------------------------------------------------
(* app/valuation/service.py *)

(* SELECT cik FROM company WHERE upper(ticker)=upper(:t); tickers are      *)
(* stored and passed in upper case                                         *)
resolve_cik_by_ticker(ticker) ==
    LET rows == {c \in company : c.ticker = ticker}
    IN  IF rows = {} THEN None ELSE Some((CHOOSE c \in rows : TRUE).cik)

(* app/core/utils.py: the CIK of the ticker, or HTTPException(404) *)
get_company_cik(ticker) ==
    LET rows == {c \in company : c.ticker = ticker}
    IN  IF rows = {} THEN [status |-> 404, detail |-> "Company not found. Ingest first."]
        ELSE [status |-> 200, cik |-> (CHOOSE c \in rows : TRUE).cik]

DefaultGrowth == 100       \* 0.10
PaybackYears  == 10        \* payback_time's max_years

(* Line 15: the growth assumption *)
resolve_growth(g_override, growths) ==
    IF g_override # None THEN g_override
    ELSE PyOr(growths.eps_cagr_5y,
         PyOr(growths.rev_cagr_5y,
         PyOr(growths.eps_cagr_10y,
         PyOr(growths.rev_cagr_10y, Some(DefaultGrowth)))))

(* SELECT price FROM price_snapshot ps JOIN company c ON ps.company_id=c.id *)
(* WHERE c.cik=:cik ORDER BY ts DESC LIMIT 1                                *)
latest_price(cik) ==
    LET rows == {ps \in price_snapshot :
                    \E c \in company : c.id = ps.company_id /\ c.cik = cik}
    IN  IF rows = {} THEN None
        ELSE Some((CHOOSE x \in rows : \A y \in rows : x.id >= y.id).price)

run_default_scenario(ticker, mos_pct, g_override, pe_cap, discount) ==
    LET cik == resolve_cik_by_ticker(ticker)
    IN  IF cik = None THEN [exc |-> "ValueError", msg |-> "Unknown ticker; ingest first."]
        ELSE
        LET eps0    == latest_eps(Get(cik))
            growths == compute_growth_metrics(Get(cik))
            g       == Get(resolve_growth(g_override, growths))
        IN  IF eps0 = None
            THEN [exc |-> "ValueError",
                  msg |-> "Missing EPS; cannot compute sticker. Ingest fuller statements."]
            ELSE
            LET sticker == sticker_and_mos(Get(eps0), g, pe_cap, discount, mos_pct)
                oe_ps   == PyOr(latest_owner_earnings_ps(Get(cik)), eps0)
                ten_cap == ten_cap_price(oe_ps)
                price   == latest_price(Get(cik))
                payback == IF Truthy(oe_ps)
                           THEN payback_time(IF Truthy(price) THEN Get(price)
                                             ELSE sticker.mos_price,
                                             oe_ps, g, PaybackYears)
                           ELSE None
            IN  [exc |-> "none",
                 inputs |-> [eps0 |-> Get(eps0), g |-> g, pe_cap |-> pe_cap,
                             discount |-> discount, mos_pct |-> mos_pct],
                 results |-> [future_eps |-> sticker.future_eps,
                              terminal_pe |-> sticker.terminal_pe,
                              future_price |-> sticker.future_price,
                              sticker |-> sticker.sticker,
                              mos_price |-> sticker.mos_price,
                              ten_cap_price |-> ten_cap,
                              payback_years |-> payback,
                              owner_earnings_ps |-> oe_ps,
                              current_price |-> price]]

-----------------------------------------------------------------------------
(* Python's sum, statistics.mean and statistics.pstdev *)

RECURSIVE SumSeq(_)
SumSeq(s) == IF s = <<>> THEN 0 ELSE s[1] + SumSeq(Tail(s))

(* statistics.mean of a non-empty list *)
mean(s) == SumSeq(s) \div Len(s)

(* The largest r in lo..hi with r * r <= n *)
RECURSIVE IsqrtSearch(_, _, _)
IsqrtSearch(lo, hi, n) ==
    IF lo >= hi THEN lo
    ELSE LET mid == (lo + hi + 1) \div 2
         IN  IF mid * mid <= n THEN IsqrtSearch(mid, hi, n)
             ELSE IsqrtSearch(lo, mid - 1, n)

Isqrt(n) == IsqrtSearch(0, Min(n, 46340), n)

(* statistics.pstdev of a non-empty list: sqrt(sum((x - mu)^2) / n),       *)
(* computed as sqrt(n * sum(x^2) - sum(x)^2) / n                           *)
pstdev(s) ==
    LET n  == Len(s)
        sq == [i \in 1..n |-> s[i] * s[i]]
    IN  Isqrt(n * SumSeq(sq) - SumSeq(s) * SumSeq(s)) \div n

(* s[-n:] *)
LastN(s, n) == SubSeq(s, Max(1, Len(s) - n + 1), Len(s))

(* The non-None values of field roic of a series, in order *)
RoicValues(series) ==
    LET kept == SelectSeq(series, LAMBDA x : x.roic # None)
    IN  [i \in 1..Len(kept) |-> Get(kept[i].roic)]

-----------------------------------------------------------------------------
(* app/metrics/compute.py: roic_persistence_score *)

PersistYears     == 5      \* years
PersistThreshold == 150    \* threshold = 0.15
HighCv           == 300    \* 0.3
LowCv            == 150    \* 0.15
MaxPersistScore  == 5

roic_persistence_score(cik, years, threshold) ==
    LET recent_roics == LastN(RoicValues(roic_series(cik)), years)
    IN  IF Len(recent_roics) < 2 THEN None
        ELSE
        LET above_threshold ==
                Cardinality({i \in 1..Len(recent_roics) : recent_roics[i] >= threshold})
            avg_roic == mean(recent_roics)
        IN  IF avg_roic = 0 THEN Some(above_threshold)
            ELSE
            LET cv     == FxDiv(pstdev(recent_roics), Abs(avg_roic))
                base   == Min(above_threshold, MaxPersistScore)
                score  == IF cv > HighCv THEN Max(0, base - 1) ELSE base
            IN  Some(IF above_threshold >= years /\ cv < LowCv
                     THEN Min(MaxPersistScore, score + 1) ELSE score)

-----------------------------------------------------------------------------
(* app/metrics/compute.py: latest_debt_to_equity *)

(* SELECT bs.total_debt, bs.shareholder_equity ... WHERE both IS NOT NULL  *)
(* ORDER BY bs.fy DESC LIMIT 1, then the truthiness tests of line 274      *)
latest_debt_to_equity(cik) ==
    LET rows == {bs \in JoinFiling(statement_bs, cik) :
                    bs.total_debt # None /\ bs.shareholder_equity # None}
    IN  IF rows = {} THEN None
        ELSE LET top == CHOOSE x \in rows : \A y \in rows : x.fy >= y.fy
             IN  IF ~Truthy(top.total_debt) \/ ~Truthy(top.shareholder_equity)
                 THEN None
                 ELSE Some(FxDiv(Get(top.total_debt), Get(top.shareholder_equity)))

-----------------------------------------------------------------------------
(* app/metrics/compute.py: margin_stability and gross_margin_series *)

(* margin_stability: the EBIT margins of the years with a truthy revenue   *)
(* and an EBIT; None below three margins or with a zero average            *)
margin_stability(cik) ==
    LET series  == _fetch_is_series(cik)
        kept    == SelectSeq(series, LAMBDA r : Truthy(r.revenue) /\ r.ebit # None)
        margins == [i \in 1..Len(kept) |-> FxDiv(Get(kept[i].ebit), Get(kept[i].revenue))]
    IN  IF Len(margins) < 3 THEN None
        ELSE IF mean(margins) = 0 THEN None
        ELSE Some(Max(0, Min(One, One - FxDiv(pstdev(margins), Abs(mean(margins))))))

(* gross_margin_series: gross_profit / revenue, or (revenue - cogs) /      *)
(* revenue when the gross profit is absent; None without a truthy revenue  *)
gross_margin_of(si) ==
    IF Truthy(si.revenue)
    THEN IF si.gross_profit # None
         THEN Some(FxDiv(Get(si.gross_profit), Get(si.revenue)))
         ELSE IF si.cogs # None
         THEN Some(FxDiv(Get(si.revenue) - Get(si.cogs), Get(si.revenue)))
         ELSE None
    ELSE None

gross_margin_series(cik) ==
    LET rows == SortByKey({[k |-> si.fy, row |-> si] : si \in JoinFiling(statement_is, cik)})
    IN  [i \in 1..Len(rows) |->
            [fy |-> rows[i].row.fy, gross_margin |-> gross_margin_of(rows[i].row)]]

-----------------------------------------------------------------------------
(* app/nlp/fourm/service.py *)

(* compute_management's query: filing LEFT JOIN statement_cf LEFT JOIN     *)
(* statement_is (same filing, si.fy = cf.fy)                               *)
ManagementJoin(cik) ==
    UNION {
      UNION {
        {[f |-> f, cf |-> cf, si |-> si] :
            si \in LeftJoin({x \in statement_is :
                        cf # NullRow /\ x.filing_id = Some(f.id) /\ x.fy = cf.fy})} :
        cf \in LeftJoin({x \in statement_cf : x.filing_id = Some(f.id)})} :
      f \in {g \in filing : g.cik = cik}}

(* Lines 160-172: the item of one row whose fy is not NULL *)
management_item(j) ==
    LET cfo   == Col(j.cf, "cfo")
        capex == Col(j.cf, "capex")
        bb    == IF Col(j.cf, "buybacks") # None THEN Get(Col(j.cf, "buybacks")) ELSE 0
        divs  == IF Col(j.cf, "dividends") # None THEN Get(Col(j.cf, "dividends")) ELSE 0
    IN  [fy |-> Get(Coalesce(FyCol(j.cf), FyCol(j.si))),
         reinvest_ratio |-> IF Truthy(cfo) /\ capex # None
                            THEN Some(FxDiv(Get(capex), Get(cfo))) ELSE None,
         payout_ratio |-> IF Truthy(cfo)
                          THEN Some(FxDiv(bb + divs, Get(cfo))) ELSE None]

management_items(cik) ==
    LET kept == {j \in ManagementJoin(cik) : Coalesce(FyCol(j.cf), FyCol(j.si)) # None}
        rows == SortByKey({[k |-> Get(Coalesce(FyCol(j.cf), FyCol(j.si))), row |-> j] :
                              j \in kept})
    IN  [i \in 1..Len(rows) |-> management_item(rows[i].row)]

ReinvestLow  == 300        \* 0.3
ReinvestHigh == 700        \* 0.7
PayoutLow    == 0          \* 0.0
PayoutHigh   == 600        \* 0.6
BelowBand    == 700        \* 0.7

(* band_score divides by low on its first branch: x / 0.0 raises           *)
(* ZeroDivisionError                                                       *)
band_score_raises(x, low) == x < low /\ low = 0

band_score(x, low, high) ==
    IF x < low THEN FxMul(FxDiv(x, low), BelowBand)
    ELSE IF x > high THEN Max(0, One - FxDiv(x - high, 2 * high))
    ELSE One

compute_management(cik) ==
    LET items    == management_items(cik)
        withR    == SelectSeq(items, LAMBDA x : x.reinvest_ratio # None)
        withP    == SelectSeq(items, LAMBDA x : x.payout_ratio # None)
        reinvest == [i \in 1..Len(withR) |-> Get(withR[i].reinvest_ratio)]
        payout   == [i \in 1..Len(withP) |-> Get(withP[i].payout_ratio)]
    IN  IF \E i \in 1..Len(payout) : band_score_raises(payout[i], PayoutLow)
        THEN [exc |-> "ZeroDivisionError"]
        ELSE
        LET rs     == [i \in 1..Len(reinvest) |->
                          band_score(reinvest[i], ReinvestLow, ReinvestHigh)]
            ps     == [i \in 1..Len(payout) |->
                          band_score(payout[i], PayoutLow, PayoutHigh)]
            scores == (IF reinvest # <<>> THEN <<mean(rs)>> ELSE <<>>) \o
                      (IF payout # <<>> THEN <<mean(ps)>> ELSE <<>>)
        IN  [exc |-> "none",
             reinvest_ratio_avg |-> IF reinvest # <<>> THEN Some(mean(reinvest)) ELSE None,
             payout_ratio_avg |-> IF payout # <<>> THEN Some(mean(payout)) ELSE None,
             score |-> IF scores # <<>> THEN Some(mean(scores)) ELSE None]

(* _normalize_score: the mean of the present values, each mapped from     *)
(* [low, high] onto [0, 1]; tuples is a sequence of <<v, low, high>>       *)
normalize_one(v, low, high) ==
    IF v <= low THEN 0 ELSE IF v >= high THEN One ELSE FxDiv(v - low, high - low)

_normalize_score(tuples) ==
    LET present == SelectSeq(tuples, LAMBDA t : t[1] # None)
        vals    == [i \in 1..Len(present) |->
                       normalize_one(Get(present[i][1]), present[i][2], present[i][3])]
    IN  IF vals # <<>> THEN Some(mean(vals)) ELSE None

LevelWeight     == 400     \* 0.4
StabilityWeight == 300     \* 0.3
TrendWeight     == 300     \* 0.3

(* _compute_pricing_power: the weighted average of the level, stability    *)
(* and trend scores that are available                                     *)
_compute_pricing_power(gross_margin, stability, trend) ==
    LET level == IF gross_margin = None THEN <<>>
                 ELSE <<<<normalize_one(Get(gross_margin), 200, 500), LevelWeight>>>>
        stab  == IF stability = None THEN <<>>
                 ELSE <<<<Get(stability), StabilityWeight>>>>
        tr    == IF trend = None THEN <<>>
                 ELSE <<<<normalize_one(Get(trend), -50, 50), TrendWeight>>>>
        parts == level \o stab \o tr
    IN  IF parts = <<>> THEN None
        ELSE Some(FxDiv(SumSeq([i \in 1..Len(parts) |-> FxMul(parts[i][1], parts[i][2])]),
                        SumSeq([i \in 1..Len(parts) |-> parts[i][2]])))

BaseWeight       == 800    \* 0.8
AdjustmentWeight == 100    \* 0.1

(* A trend that is formed from two gross margins already *)
gross_margin_trend_of_FromTwo(gm_values) ==
    LET n == Len(gm_values)
    IN  IF n >= 6
        THEN Some(mean(SubSeq(gm_values, n - 2, n)) - mean(SubSeq(gm_values, 1, 3)))
        ELSE IF n >= 2 THEN Some(gm_values[n] - gm_values[1])
        ELSE None

(* Lines 50-59: the gross-margin trend of the gross margins on file *)
gross_margin_trend_of(gm_values) ==
    LET n == Len(gm_values)
    IN  IF n >= 6
        THEN Some(mean(SubSeq(gm_values, n - 2, n)) - mean(SubSeq(gm_values, 1, 3)))
        ELSE IF n >= 3 THEN Some(gm_values[n] - gm_values[1])
        ELSE None

(* Lines 40-98: the moat figures from the four series read of the store:   *)
(* the ROIC values, the margin stability, the gross margins and the ROIC   *)
(* persistence score                                                       *)
moat_of(roics, margin_stab, gm_values, roic_persist) ==
    LET roic_avg    == IF roics # <<>> THEN Some(mean(roics)) ELSE None
        roic_sd     == IF Len(roics) >= 2 THEN Some(pstdev(roics)) ELSE None
        n           == Len(gm_values)
        latest_gross_margin == IF n > 0 THEN Some(gm_values[n]) ELSE None
        gross_margin_trend == gross_margin_trend_of(gm_values)
        gross_margin_stability ==
            IF n >= 3 /\ mean(gm_values) > 0
            THEN Some(One - Min(One, FxDiv(pstdev(gm_values), mean(gm_values))))
            ELSE None
        pricing_power == _compute_pricing_power(latest_gross_margin,
                                                gross_margin_stability, gross_margin_trend)
        base_score ==
            _normalize_score(<<
                <<roic_avg, 100, 250>>,
                <<IF roic_sd = None THEN None ELSE Some(FxDiv(One, One + Get(roic_sd))),
                  400, 900>>,
                <<margin_stab, 300, 900>> >>)
        adjustments ==
            (IF pricing_power # None
             THEN <<FxMul(Get(pricing_power), AdjustmentWeight)>> ELSE <<>>) \o
            (IF roic_persist # None
             THEN <<FxMul(FxDiv(Get(roic_persist), 5), AdjustmentWeight)>>
             ELSE <<>>)
        final_score ==
            IF base_score # None /\ adjustments # <<>>
            THEN Some(FxMul(Get(base_score), BaseWeight) + SumSeq(adjustments))
            ELSE base_score
    IN  [roic_avg |-> roic_avg, roic_sd |-> roic_sd, margin_stability |-> margin_stab,
         latest_gross_margin |-> latest_gross_margin,
         gross_margin_trend |-> gross_margin_trend,
         gross_margin_stability |-> gross_margin_stability,
         roic_persistence_score |-> roic_persist,
         pricing_power_score |-> pricing_power,
         score |-> final_score]

(* The non-None values of field gross_margin of a series, in order *)
GrossMarginValues(series) ==
    LET kept == SelectSeq(series, LAMBDA x : x.gross_margin # None)
    IN  [i \in 1..Len(kept) |-> Get(kept[i].gross_margin)]

(* compute_moat: lines 39-46 and 65 read the four series once each *)
compute_moat(cik) ==
    CHOOSE moat \in
        {moat_of(roics, margin_stab, gm_values, roic_persist) :
            roics \in {RoicValues(roic_series(cik))},
            margin_stab \in {margin_stability(cik)},
            gm_values \in {GrossMarginValues(gross_margin_series(cik))},
            roic_persist \in
                {roic_persistence_score(cik, PersistYears, PersistThreshold)}} : TRUE

-----------------------------------------------------------------------------
(* app/metrics/compute.py: coverage_series and net_debt_series *)

(* coverage_series: ebit / interest_expense per income-statement row,      *)
(* None when either is absent or the interest expense is 0                 *)
coverage_series(cik) ==
    LET rows == SortByKey({[k |-> si.fy, row |-> si] : si \in JoinFiling(statement_is, cik)})
    IN  [i \in 1..Len(rows) |->
            [fy |-> rows[i].row.fy,
             coverage |->
                 IF /\ rows[i].row.ebit # None
                    /\ rows[i].row.interest_expense # None
                    /\ Get(rows[i].row.interest_expense) # 0
                 THEN Some(FxDiv(Get(rows[i].row.ebit), Get(rows[i].row.interest_expense)))
                 ELSE None]]

(* net_debt_series: total_debt - cash per balance-sheet row, None when     *)
(* either is absent                                                        *)
net_debt_series(cik) ==
    LET rows == SortByKey({[k |-> bs.fy, row |-> bs] : bs \in JoinFiling(statement_bs, cik)})
    IN  [i \in 1..Len(rows) |->
            [fy |-> rows[i].row.fy,
             net_debt |->
                 IF rows[i].row.total_debt # None /\ rows[i].row.cash # None
                 THEN Some(ToFx(Get(rows[i].row.total_debt) - Get(rows[i].row.cash)))
                 ELSE None]]

-----------------------------------------------------------------------------
(* app/metrics/compute.py: revenue_volatility,                             *)
(* compute_growth_metrics_extended, share_count_trend and quality_scores   *)

(* revenue_volatility: the standard deviation of the year-over-year        *)
(* revenue growth rates between consecutive rows with truthy revenues      *)
revenue_volatility(cik) ==
    LET series == _fetch_is_series(cik)
    IN  IF Len(series) < 3 THEN None
        ELSE
        LET pairs == SelectSeq([i \in 1..(Len(series) - 1) |->
                                   <<series[i].revenue, series[i + 1].revenue>>],
                               LAMBDA p : Truthy(p[1]) /\ Truthy(p[2]))
            growth_rates == [i \in 1..Len(pairs) |->
                                FxDiv(Get(pairs[i][2]) - Get(pairs[i][1]), Get(pairs[i][1]))]
        IN  IF Len(growth_rates) < 2 THEN None ELSE Some(pstdev(growth_rates))

NoGrowthExtended ==
    [rev_cagr_1y |-> None, rev_cagr_3y |-> None, rev_cagr_5y |-> None,
     rev_cagr_10y |-> None, eps_cagr_1y |-> None, eps_cagr_3y |-> None,
     eps_cagr_5y |-> None, eps_cagr_10y |-> None]

compute_growth_metrics_extended(cik) ==
    LET series == _fetch_is_series(cik)
    IN  IF Len(series) < 2 THEN NoGrowthExtended
        ELSE LET years == [i \in 1..Len(series) |-> series[i].fy]
                 revs  == [i \in 1..Len(series) |-> series[i].revenue]
                 eps   == [i \in 1..Len(series) |-> series[i].eps]
             IN  [rev_cagr_1y  |-> _calculate_window_cagr(years, revs, 1),
                  rev_cagr_3y  |-> _calculate_window_cagr(years, revs, 3),
                  rev_cagr_5y  |-> _calculate_window_cagr(years, revs, 5),
                  rev_cagr_10y |-> _calculate_window_cagr(years, revs, 10),
                  eps_cagr_1y  |-> _calculate_window_cagr(years, eps, 1),
                  eps_cagr_3y  |-> _calculate_window_cagr(years, eps, 3),
                  eps_cagr_5y  |-> _calculate_window_cagr(years, eps, 5),
                  eps_cagr_10y |-> _calculate_window_cagr(years, eps, 10)]

(* share_count_trend: the diluted shares per row and their change over the *)
(* previous row's, None when either is absent or the previous is 0         *)
share_count_trend(cik) ==
    LET rows == SortByKey({[k |-> si.fy, row |-> si] : si \in JoinFiling(statement_is, cik)})
        shares_val(i) == rows[i].row.shares_diluted
        prev_shares(i) == IF i = 1 THEN None ELSE shares_val(i - 1)
    IN  [i \in 1..Len(rows) |->
            [fy |-> rows[i].row.fy,
             shares |-> IF shares_val(i) = None THEN None
                        ELSE Some(ToFx(Get(shares_val(i)))),
             yoy_change |->
                 IF shares_val(i) # None /\ Truthy(prev_shares(i))
                 THEN Some(FxDiv(Get(shares_val(i)) - Get(prev_shares(i)),
                                 Get(prev_shares(i))))
                 ELSE None]]

quality_scores(cik) ==
    LET gm_series == gross_margin_series(cik)
        nd_series == net_debt_series(cik)
        shares    == share_count_trend(cik)
        gm_kept   == SelectSeq(gm_series, LAMBDA x : x.gross_margin # None)
        gm_values == [i \in 1..Len(gm_kept) |-> Get(gm_kept[i].gross_margin)]
        nd_kept   == SelectSeq(nd_series, LAMBDA x : x.net_debt # None)
        nd_values == [i \in 1..Len(nd_kept) |-> Get(nd_kept[i].net_debt)]
        ch_kept   == SelectSeq(shares, LAMBDA x : x.yoy_change # None)
        share_changes == [i \in 1..Len(ch_kept) |-> Get(ch_kept[i].yoy_change)]
    IN  [gross_margin_series |-> gm_series,
         latest_gross_margin |->
             IF gm_values # <<>> THEN Some(gm_values[Len(gm_values)]) ELSE None,
         gross_margin_trend |->
             IF Len(gm_values) >= 3
             THEN Some(SumSeq(LastN(gm_values, 3)) \div 3
                       - SumSeq(SubSeq(gm_values, 1, 3)) \div Min(3, Len(gm_values)))
             ELSE None,
         revenue_volatility |-> revenue_volatility(cik),
         growth_metrics |-> compute_growth_metrics_extended(cik),
         net_debt_series |-> nd_series,
         latest_net_debt |->
             IF nd_values # <<>> THEN Some(nd_values[Len(nd_values)]) ELSE None,
         share_count_trend |-> shares,
         avg_share_dilution_3y |->
             IF Len(share_changes) >= 1
             THEN Some(SumSeq(LastN(share_changes, 3)) \div Len(LastN(share_changes, 3)))
             ELSE None,
         roic_persistence_score |->
             roic_persistence_score(cik, PersistYears, PersistThreshold)]

-----------------------------------------------------------------------------
(* app/nlp/fourm/service.py: compute_balance_sheet_resilience *)

CoverageWeight   == 400    \* 0.4
DebtEquityWeight == 300    \* 0.3
NetDebtWeight    == 300    \* 0.3

(* Lines 206-216: the change of the mean of the last two net debts over    *)
(* the mean of the first two, relative to the latter                       *)
net_debt_trend_of(nd_values) ==
    IF Len(nd_values) >= 3
    THEN LET recent_nd == mean(LastN(nd_values, 2))
             older_nd  == mean(SubSeq(nd_values, 1, 2))
         IN  IF older_nd # 0
             THEN Some(FxDiv(recent_nd - older_nd, Abs(older_nd)))
             ELSE Some(IF recent_nd = 0 THEN 0 ELSE IF recent_nd > 0 THEN One ELSE -One)
    ELSE None

(* Lines 219-228 *)
coverage_score_of(latest_coverage) ==
    IF latest_coverage >= 10 * One THEN 5 * One
    ELSE IF latest_coverage >= 5 * One
    THEN 3 * One + FxDiv(latest_coverage - 5 * One, 5 * One) * 2
    ELSE IF latest_coverage >= 2 * One
    THEN One + FxDiv(latest_coverage - 2 * One, 3 * One) * 2
    ELSE Max(0, latest_coverage \div 2)

(* Lines 230-239 *)
debt_equity_score_of(debt_equity) ==
    IF debt_equity <= 300 THEN 5 * One
    ELSE IF debt_equity <= 700 THEN 3 * One + FxDiv(700 - debt_equity, 400) * 2
    ELSE IF debt_equity <= 1500 THEN One + FxDiv(1500 - debt_equity, 800) * 2
    ELSE Max(0, One - FxDiv(debt_equity - 1500, 1500))

(* Lines 241-251 *)
trend_score_of(net_debt_trend) ==
    IF net_debt_trend <= -100 THEN 5 * One
    ELSE IF net_debt_trend <= 0 THEN 3 * One + FxDiv(-net_debt_trend, 100) * 2
    ELSE IF net_debt_trend <= 100 THEN One + FxDiv(100 - net_debt_trend, 100) * 2
    ELSE Max(0, One - FxDiv(net_debt_trend - 100, 200))

(* Lines 253-269 with every absent component counted as a score of 0 *)
resilience_final_score_ZeroFilled(coverage_score, debt_equity_score, trend_score) ==
    LET parts ==
            (IF coverage_score # None
             THEN <<<<Get(coverage_score), CoverageWeight>>>> ELSE <<>>) \o
            (IF debt_equity_score # None
             THEN <<<<Get(debt_equity_score), DebtEquityWeight>>>> ELSE <<>>) \o
            (IF trend_score # None
             THEN <<<<Get(trend_score), NetDebtWeight>>>> ELSE <<>>)
    IN  IF parts = <<>> THEN None
        ELSE Some(FxDiv(SumSeq([i \in 1..Len(parts) |-> FxMul(parts[i][1], parts[i][2])]),
                        CoverageWeight + DebtEquityWeight + NetDebtWeight))

(* Lines 253-269: the weighted average of the component scores present *)
resilience_final_score(coverage_score, debt_equity_score, trend_score) ==
    LET parts ==
            (IF coverage_score # None
             THEN <<<<Get(coverage_score), CoverageWeight>>>> ELSE <<>>) \o
            (IF debt_equity_score # None
             THEN <<<<Get(debt_equity_score), DebtEquityWeight>>>> ELSE <<>>) \o
            (IF trend_score # None
             THEN <<<<Get(trend_score), NetDebtWeight>>>> ELSE <<>>)
    IN  IF parts = <<>> THEN None
        ELSE Some(FxDiv(SumSeq([i \in 1..Len(parts) |-> FxMul(parts[i][1], parts[i][2])]),
                        SumSeq([i \in 1..Len(parts) |-> parts[i][2]])))

compute_balance_sheet_resilience(cik) ==
    LET cov_kept   == SelectSeq(coverage_series(cik), LAMBDA x : x.coverage # None)
        cov_values == [i \in 1..Len(cov_kept) |-> Get(cov_kept[i].coverage)]
        latest_coverage ==
            IF cov_values # <<>> THEN Some(cov_values[Len(cov_values)]) ELSE None
        debt_equity == latest_debt_to_equity(cik)
        nd_kept    == SelectSeq(net_debt_series(cik), LAMBDA x : x.net_debt # None)
        nd_values  == [i \in 1..Len(nd_kept) |-> Get(nd_kept[i].net_debt)]
        latest_net_debt ==
            IF nd_values # <<>> THEN Some(nd_values[Len(nd_values)]) ELSE None
        net_debt_trend == net_debt_trend_of(nd_values)
        coverage_score ==
            IF latest_coverage # None
            THEN Some(coverage_score_of(Get(latest_coverage))) ELSE None
        debt_equity_score ==
            IF debt_equity # None
            THEN Some(debt_equity_score_of(Get(debt_equity))) ELSE None
        trend_score ==
            IF net_debt_trend # None
            THEN Some(trend_score_of(Get(net_debt_trend))) ELSE None
    IN  [latest_coverage |-> latest_coverage,
         debt_to_equity |-> debt_equity,
         latest_net_debt |-> latest_net_debt,
         net_debt_trend |-> net_debt_trend,
         coverage_score |-> coverage_score,
         debt_equity_score |-> debt_equity_score,
         trend_score |-> trend_score,
         score |-> resilience_final_score(coverage_score, debt_equity_score, trend_score)]

DefaultScore == 500        \* 0.5: moat_s and mgmt_s when the score is falsy
BaseMos      == 500        \* 0.5
MinMos       == 300        \* 0.3
MaxMos       == 700        \* 0.7
GrowthPivot  == 150        \* 0.15
ScoreWeight  == 200        \* 0.2
BsWeight     == 100        \* 0.1
BsScale      == 5          \* 5.0

(* Lines 298-308: adj, from the values lines 293-296 resolve *)
mos_adjustment(g, moat_s, mgmt_s, bs_s) ==
    (GrowthPivot - Min(GrowthPivot, g))
    + FxMul(DefaultScore - Max(moat_s, 0), ScoreWeight)
    + FxMul(DefaultScore - Max(mgmt_s, 0), ScoreWeight)
    + (IF bs_s # None THEN FxMul(DefaultScore - (Get(bs_s) \div BsScale), BsWeight) ELSE 0)

(* A recommendation without the clamp of line 310 *)
compute_margin_of_safety_recommendation_Unclamped(moat, mgmt, growths, balance_sheet) ==
    LET moat_s == Get(PyOr(moat.score, Some(DefaultScore)))
        mgmt_s == Get(PyOr(mgmt.score, Some(DefaultScore)))
        bs_s   == balance_sheet.score
        g      == Get(PyOr(growths.eps_cagr_5y,
                      PyOr(growths.rev_cagr_5y, Some(DefaultGrowth))))
    IN  [recommended_mos |-> BaseMos + mos_adjustment(g, moat_s, mgmt_s, bs_s),
         drivers |-> [growth |-> g, moat_score |-> moat_s, mgmt_score |-> mgmt_s,
                      balance_sheet_score |-> bs_s]]

(* compute_margin_of_safety_recommendation, with moat, mgmt, growths and   *)
(* balance_sheet the results of the four calls of lines 288-291            *)
compute_margin_of_safety_recommendation(moat, mgmt, growths, balance_sheet) ==
    LET moat_s == Get(PyOr(moat.score, Some(DefaultScore)))
        mgmt_s == Get(PyOr(mgmt.score, Some(DefaultScore)))
        bs_s   == balance_sheet.score
        g      == Get(PyOr(growths.eps_cagr_5y,
                      PyOr(growths.rev_cagr_5y, Some(DefaultGrowth))))
        mos    == Min(MaxMos, Max(MinMos, BaseMos + mos_adjustment(g, moat_s, mgmt_s, bs_s)))
    IN  [recommended_mos |-> mos,
         drivers |-> [growth |-> g, moat_score |-> moat_s, mgmt_score |-> mgmt_s,
                      balance_sheet_score |-> bs_s]]

(* Lines 288-291: the recommendation of a company, from the four results   *)
(* computed on the store; an exception of compute_management propagates    *)
margin_of_safety_recommendation_of(cik) ==
    LET mgmt == compute_management(cik)
    IN  IF mgmt.exc # "none" THEN [exc |-> mgmt.exc]
        ELSE compute_margin_of_safety_recommendation(
                 compute_moat(cik), mgmt, compute_growth_metrics(cik),
                 compute_balance_sheet_resilience(cik))

-----------------------------------------------------------------------------
(* Specification SpecCagr: cagr applied to every argument triple *)

InitCagr ==
    /\ EmptyStore
    /\ inp \in [first : Opt(FactValues), last : Opt(FactValues), years : -1..MaxYear]
    /\ op = "idle"
    /\ out = None

Call_cagr ==
    /\ op = "idle"
    /\ op' = "cagr"
    /\ out' = cagr(inp.first, inp.last, inp.years)
    /\ UNCHANGED <<inp, store>>

NextCagr == Call_cagr

SpecCagr == InitCagr /\ [][NextCagr]_vars

-----------------------------------------------------------------------------
(* Specification SpecWindow: _calculate_window_cagr applied to every       *)
(* ascending series, with the direct cagr over its ends beside it.         *)

InitWindow ==
    /\ EmptyStore
    /\ \E ys \in AscendingYears :
         \E vs \in [1..Len(ys) -> Opt(FactValues)] :
           \E w \in Windows :
              inp = [years |-> ys, values |-> vs, window_years |-> w]
    /\ op = "idle"
    /\ out = None

Call_calculate_window_cagr ==
    /\ op = "idle"
    /\ op' = "_calculate_window_cagr"
    /\ out' = _calculate_window_cagr(inp.years, inp.values, inp.window_years)
    /\ UNCHANGED <<inp, store>>

NextWindow == Call_calculate_window_cagr

SpecWindow == InitWindow /\ [][NextWindow]_vars

-----------------------------------------------------------------------------
(* Specification SpecRoic: one company's year of facts is ingested, with   *)
(* EBIT, taxes and the balance sheet absent, negative, zero or positive,   *)
(* and roic_series is read.                                                *)

RoicYearFacts ==
    {[NoFacts EXCEPT !.revenue = Some(4), !.ebit = e, !.taxes = t,
                     !.shareholder_equity = q, !.total_debt = d, !.cash = c] :
        e \in Opt({-4, 0, 4}), t \in Opt({-2, 1, 8}),
        q \in Opt({5}), d \in Opt({3}), c \in Opt({0, 8})}

FactsRoic == [{0} -> RoicYearFacts]

KnownCiks == {c.cik : c \in company}

InitStore ==
    /\ EmptyStore
    /\ inp = None
    /\ op = "idle"
    /\ out = None

Call_roic_series(cik) ==
    /\ inp' = [cik |-> cik]
    /\ op' = "roic_series"
    /\ out' = roic_series(cik)
    /\ UNCHANGED store

NextRoic ==
    \/ \E t \in Tickers, facts \in FactsRoic :
          ingest_companyfacts_richer_by_ticker(t, facts)
    \/ \E cik \in KnownCiks : Call_roic_series(cik)

SpecRoic == InitStore /\ [][NextRoic]_vars

-----------------------------------------------------------------------------
(* app/alerts/engine.py and app/api/v1/routes.py: the callers of the       *)
(* valuation scenario                                                      *)

MaxSnapshots == 1

(* snapshot_price_for_ticker, with p what price_yfinance returns *)
snapshot_price_for_ticker(ticker, p) ==
    /\ Cardinality(price_snapshot) < MaxSnapshots
    /\ inp' = [ticker |-> ticker]
    /\ op' = "snapshot_price_for_ticker"
    /\ out' = IF \E c \in company : c.ticker = ticker THEN p ELSE None
    /\ IF p # None /\ \E c \in company : c.ticker = ticker
       THEN price_snapshot' = price_snapshot \cup
                {[id |-> Cardinality(price_snapshot) + 1,
                  company_id |-> (CHOOSE c \in company : c.ticker = ticker).id,
                  price |-> Get(p)]}
       ELSE UNCHANGED price_snapshot
    /\ UNCHANGED <<company, filing, statement_is, statement_bs, statement_cf, ingests,
                   annex>>

DefaultPeCap    == 20
DefaultDiscount == 150     \* 0.15
DefaultMosPct   == 500     \* 0.5

(* The response of an endpoint whose handler got the result res of the     *)
(* scenario: run_valuation catches ValueError and raises HTTPException(404) *)
run_valuation_response(res) ==
    IF res.exc = "ValueError"
    THEN [status |-> 404, detail |-> res.msg]
    ELSE [status |-> 200, body |-> res]

(* export_valuation_json has no handler and the application registers     *)
(* none for ValueError: the exception leaves the endpoint and the server   *)
(* answers 500                                                             *)
export_valuation_json_response(res) ==
    IF res.exc = "ValueError"
    THEN [status |-> 500, exc |-> "ValueError", msg |-> res.msg]
    ELSE [status |-> 200, body |-> res]

(* POST /company/{ticker}/valuation *)
run_valuation(ticker, body) ==
    /\ inp' = [ticker |-> ticker, body |-> body]
    /\ op' = "run_valuation"
    /\ out' = run_valuation_response(
                  run_default_scenario(ticker, body.mos_pct, body.g,
                      Get(PyOr(body.pe_cap, Some(DefaultPeCap))),
                      Get(PyOr(body.discount, Some(DefaultDiscount)))))
    /\ UNCHANGED store

(* GET /company/{ticker}/export/valuation.json *)
export_valuation_json(ticker, mos_pct) ==
    /\ inp' = [ticker |-> ticker, mos_pct |-> mos_pct]
    /\ op' = "export_valuation_json"
    /\ out' = export_valuation_json_response(
                  run_default_scenario(ticker, mos_pct, None,
                                       DefaultPeCap, DefaultDiscount))
    /\ UNCHANGED store

-----------------------------------------------------------------------------
(* app/api/v1/routes.py: the alert rules; app/alerts/engine.py *)

MaxRules == 2        \* alert rules on file
MaxNotes == 1        \* evaluate_alerts runs while fewer notes are on file

financials == <<company, filing, statement_is, statement_bs, statement_cf,
                price_snapshot, ingests>>

(* POST /company/{ticker}/alerts *)
create_alert(ticker, body) ==
    /\ Cardinality(alert_rule) < MaxRules
    /\ inp' = [ticker |-> ticker, body |-> body]
    /\ op' = "create_alert"
    /\ IF \E c \in company : c.ticker = ticker
       THEN /\ alert_rule' = alert_rule \cup
                  {[id |-> Cardinality(alert_rule) + 1,
                    company_id |-> (CHOOSE c \in company : c.ticker = ticker).id,
                    rule_type |-> body.rule_type, threshold |-> body.threshold,
                    enabled |-> TRUE]}
            /\ out' = [status |-> 200]
       ELSE /\ UNCHANGED alert_rule
            /\ out' = [status |-> 404, detail |-> "Company not found"]
    /\ UNCHANGED <<financials, meaning_note, requests>>

(* Line 16: the enabled rules, joined to their company *)
EnabledRules ==
    {[rid |-> q[1].id, ticker |-> q[2].ticker, rtype |-> q[1].rule_type,
      threshold |-> q[1].threshold] :
        q \in {q \in alert_rule \X company :
                  q[2].id = q[1].company_id /\ q[1].enabled}}

(* Lines 19-30: whether the rule triggers at the price p that              *)
(* price_yfinance returned for its ticker; an exception of the valuation   *)
(* is caught and the loop goes on                                          *)
rule_triggers(rule, p) ==
    IF p = None THEN FALSE
    ELSE \/ /\ rule.rtype = "price_below_threshold"
            /\ rule.threshold # None
            /\ Get(p) < Get(rule.threshold)
         \/ /\ rule.rtype = "price_below_mos"
            /\ \E val \in {run_default_scenario(rule.ticker, DefaultMosPct, None,
                                                  DefaultPeCap, DefaultDiscount)} :
                  val.exc = "none" /\ Get(p) < val.results.mos_price

(* A loop that a failing valuation ends with nothing triggered *)
triggered_rules_Aborting(prices) ==
    IF \E r \in EnabledRules :
          /\ r.rtype = "price_below_mos"
          /\ prices[r.rid] # None
          /\ run_default_scenario(r.ticker, DefaultMosPct, None,
                                  DefaultPeCap, DefaultDiscount).exc # "none"
    THEN {}
    ELSE {r \in EnabledRules : rule_triggers(r, prices[r.rid])}

(* Lines 17-30: the list triggered, prices[rid] being the price of the     *)
(* rule's ticker at the time the rule is evaluated                         *)
triggered_rules(prices) ==
    {r \in EnabledRules : rule_triggers(r, prices[r.rid])}

(* evaluate_alerts: one note per triggered rule and company of its ticker *)
evaluate_alerts(prices) ==
    /\ Cardinality(meaning_note) < MaxNotes
    /\ inp' = [prices |-> prices]
    /\ op' = "evaluate_alerts"
    /\ \E triggered \in {triggered_rules(prices)} :
           /\ meaning_note' = meaning_note \cup
                 {[id |-> Cardinality(meaning_note)
                            + Rank(q[1].rid, {t.rid : t \in triggered}),
                   company_id |-> q[2].id, section |-> "alerts",
                   evidence_type |-> q[1].rtype] :
                     q \in {q \in triggered \X company : q[2].ticker = q[1].ticker}}
           /\ out' = [triggered |-> Cardinality(triggered)]
    /\ UNCHANGED <<financials, alert_rule, requests>>

-----------------------------------------------------------------------------
(* app/api/v1/routes.py: refresh_meaning_analysis. The handler runs in a   *)
(* worker w; its SELECT and its INSERT are two execute() calls, each a     *)
(* transaction of its own, and requests[w] holds what the worker has read  *)
(* between the two. All requests fall within one 30-day period.            *)

RecentMeaningNotes(cik) ==
    {n \in meaning_note :
        /\ \E c \in company : c.cik = cik /\ n.company_id = c.id
        /\ n.evidence_type = "sec_10k_item1"}

(* Lines 322-349: up to the existence check; status is the status of what *)
(* get_meaning_item1 returned                                              *)
refresh_meaning_check(w, ticker, status) ==
    /\ requests[w].pc = "idle"
    /\ inp' = [worker |-> w, ticker |-> ticker]
    /\ op' = "refresh_meaning_analysis"
    /\ IF get_company_cik(ticker).status = 404
       THEN /\ out' = get_company_cik(ticker)
            /\ UNCHANGED requests
       ELSE IF status = "not_found"
       THEN /\ out' = [status |-> 404, detail |-> "No 10-K filing found for this company"]
            /\ UNCHANGED requests
       ELSE /\ out' = [status |-> 0]      \* no response yet
            /\ requests' = [requests EXCEPT ![w] =
                   [pc |-> "checked", cik |-> get_company_cik(ticker).cik,
                    existing |-> RecentMeaningNotes(get_company_cik(ticker).cik) # {}]]
    /\ UNCHANGED <<financials, alert_rule, meaning_note>>

(* Lines 351-368: the insert, unless the check found a recent note *)
refresh_meaning_insert(w) ==
    /\ requests[w].pc = "checked"
    /\ inp' = [worker |-> w]
    /\ op' = "refresh_meaning_analysis"
    /\ out' = [status |-> 200]
    /\ IF requests[w].existing
       THEN UNCHANGED meaning_note
       ELSE meaning_note' = meaning_note \cup
               {[id |-> Cardinality(meaning_note) + 1,
                 company_id |-> c.id, section |-> "Item 1 - Business",
                 evidence_type |-> "sec_10k_item1"] :
                    c \in {c \in company : c.cik = requests[w].cik}}
    /\ requests' = [requests EXCEPT ![w] = [pc |-> "idle"]]
    /\ UNCHANGED <<financials, alert_rule>>

(* A scenario run that also records the MOS price it computed as a price  *)
(* snapshot of the company                                                 *)
Call_run_default_scenario_Persisting(ticker, mos_pct, g_override, pe_cap, discount) ==
    LET res == run_default_scenario(ticker, mos_pct, g_override, pe_cap, discount)
    IN  /\ inp' = [ticker |-> ticker, mos_pct |-> mos_pct, g_override |-> g_override,
                   pe_cap |-> pe_cap, discount |-> discount]
        /\ op' = "run_default_scenario"
        /\ out' = res
        /\ IF res.exc = "none" /\ Cardinality(price_snapshot) <= MaxSnapshots
           THEN price_snapshot' = price_snapshot \cup
                    {[id |-> Cardinality(price_snapshot) + 1,
                      company_id |-> (CHOOSE c \in company : c.ticker = ticker).id,
                      price |-> res.results.mos_price]}
           ELSE UNCHANGED price_snapshot
        /\ UNCHANGED <<company, filing, statement_is, statement_bs, statement_cf, ingests,
                   annex>>

Call_run_default_scenario(ticker, mos_pct, g_override, pe_cap, discount) ==
    /\ inp' = [ticker |-> ticker, mos_pct |-> mos_pct, g_override |-> g_override,
               pe_cap |-> pe_cap, discount |-> discount]
    /\ op' = "run_default_scenario"
    /\ out' = run_default_scenario(ticker, mos_pct, g_override, pe_cap, discount)
    /\ UNCHANGED store

-----------------------------------------------------------------------------
(* Specification SpecGrowth: companies whose revenue and EPS facts cover   *)
(* one to three of the years 0, 5 and 6, and the scenario run on them.     *)

GrowthYearSets == {{6}, {5, 6}, {0, 6}, {0, 5, 6}}

GrowthYearFacts ==
    {yf \in {[NoFacts EXCEPT !.revenue = r, !.eps_diluted = e] :
                r \in Opt({1, 2}), e \in Opt({1, 2})} : HasYearItem(yf)}

FactsGrowth == UNION {[Y -> GrowthYearFacts] : Y \in GrowthYearSets}

NextGrowth ==
    \/ \E t \in Tickers, facts \in FactsGrowth :
          ingest_companyfacts_richer_by_ticker(t, facts)
    \/ \E t \in Tickers, g \in Opt({0, 200}) :
          Call_run_default_scenario(t, DefaultMosPct, g, DefaultPeCap, DefaultDiscount)

SpecGrowth == InitStore /\ [][NextGrowth]_vars

-----------------------------------------------------------------------------
(* Specification SpecValuation: companies with year 6, and possibly year   *)
(* 5, on file; price snapshots; the scenario called directly.              *)

(* (cfo, capex, shares_diluted) of the latest year *)
OwnerEarningsProfiles ==
    {<<None, None, None>>, <<Some(6), Some(2), Some(2)>>, <<Some(1), Some(2), Some(2)>>}

ValuationYearFacts ==
    {[NoFacts EXCEPT !.revenue = Some(4), !.eps_diluted = e, !.cfo = o[1],
                     !.capex = o[2], !.shares_diluted = o[3]] :
        e \in Opt({0, 2}), o \in OwnerEarningsProfiles}

PriorYearFacts == [NoFacts EXCEPT !.revenue = Some(2), !.eps_diluted = Some(1)]

FactsValuation ==
    [{6} -> ValuationYearFacts] \cup
    {[fy \in {5, 6} |-> IF fy = 5 THEN PriorYearFacts ELSE yf] :
        yf \in ValuationYearFacts}

(* The arguments of the direct calls: the defaults, and a quarter off with *)
(* a growth override above the cap                                         *)
ScenarioCalls ==
    {[mos_pct |-> DefaultMosPct, g_override |-> None],
     [mos_pct |-> 250, g_override |-> Some(700)]}

NextValuation ==
    \/ \E t \in Tickers, facts \in FactsValuation :
          ingest_companyfacts_richer_by_ticker(t, facts)
    \/ \E t \in Tickers, p \in Opt({0, 3000}) : snapshot_price_for_ticker(t, p)
    \/ \E t \in Tickers, c \in ScenarioCalls :
          Call_run_default_scenario(t, c.mos_pct, c.g_override,
                                    DefaultPeCap, DefaultDiscount)

SpecValuation == InitStore /\ [][NextValuation]_vars

-----------------------------------------------------------------------------
(* Specification SpecEndpoints: the same companies, and the scenario run   *)
(* through the two endpoints.                                              *)

ValuationBodies ==
    [mos_pct : {DefaultMosPct}, g : Opt({0}), pe_cap : Opt({8}), discount : Opt({0})]

NextEndpoints ==
    \/ \E t \in Tickers, facts \in FactsValuation :
          ingest_companyfacts_richer_by_ticker(t, facts)
    \/ \E t \in Tickers, body \in ValuationBodies : run_valuation(t, body)
    \/ \E t \in Tickers, m \in {DefaultMosPct, 250} : export_valuation_json(t, m)

SpecEndpoints == InitStore /\ [][NextEndpoints]_vars

-----------------------------------------------------------------------------
(* Specification SpecManagement: companies with one or two years of cash   *)
(* flow facts, and compute_management called on them.                      *)

ManagementYearFacts ==
    {[NoFacts EXCEPT !.revenue = Some(4), !.cfo = cfo, !.capex = capex,
                     !.buybacks = bb, !.dividends = divs] :
        cfo \in Opt({-2, 0, 1, 4}), capex \in Opt({2}),
        bb \in Opt({1}), divs \in Opt({2})}

FactsManagement == [{6} -> ManagementYearFacts] \cup [{5, 6} -> ManagementYearFacts]

Call_compute_management(cik) ==
    /\ inp' = [cik |-> cik]
    /\ op' = "compute_management"
    /\ out' = compute_management(cik)
    /\ UNCHANGED store

NextManagement ==
    \/ \E t \in Tickers, facts \in FactsManagement :
          ingest_companyfacts_richer_by_ticker(t, facts)
    \/ \E cik \in KnownCiks : Call_compute_management(cik)

SpecManagement == InitStore /\ [][NextManagement]_vars

-----------------------------------------------------------------------------
(* Specification SpecMos: compute_margin_of_safety_recommendation applied  *)
(* to every combination of the scores and growth figures its four calls    *)
(* can hand it, the out-of-range ones included.                            *)

MoatScores    == Opt({-200, 0, 300, 500, 1000, 1500})
MgmtScores    == Opt({-700, 0, 400, 1000})
BalanceScores == Opt({-1000, 0, 2500, 5000, 7000})
GrowthFigures == Opt({-900, 0, 100, 3000})

InitMos ==
    /\ EmptyStore
    /\ inp \in [moat : [score : MoatScores], mgmt : [score : MgmtScores],
                balance_sheet : [score : BalanceScores],
                growths : {[NoGrowth EXCEPT !.eps_cagr_5y = e, !.rev_cagr_5y = r] :
                              e \in GrowthFigures, r \in GrowthFigures}]
    /\ op = "idle"
    /\ out = None

Call_compute_margin_of_safety_recommendation ==
    /\ op = "idle"
    /\ op' = "compute_margin_of_safety_recommendation"
    /\ out' = compute_margin_of_safety_recommendation(
                  inp.moat, inp.mgmt, inp.growths, inp.balance_sheet)
    /\ UNCHANGED <<inp, store>>

NextMos == Call_compute_margin_of_safety_recommendation

SpecMos == InitMos /\ [][NextMos]_vars

-----------------------------------------------------------------------------
(* Specification SpecSticker: sticker_and_mos applied to two growth rates  *)
(* with the other inputs fixed.                                            *)

StickerEps     == {-2000, 0, 500, 2000}
StickerGrowths == {-200, 0, 50, 100, 300, 500, 700}
StickerPeCaps  == {0, 8, DefaultPeCap}
StickerDiscounts == {0, DefaultDiscount}

InitSticker ==
    /\ EmptyStore
    /\ inp \in [eps0 : StickerEps, g1 : StickerGrowths, g2 : StickerGrowths,
                pe_cap : StickerPeCaps, discount : StickerDiscounts,
                mos_pct : {DefaultMosPct}]
    /\ op = "idle"
    /\ out = None

Call_sticker_and_mos ==
    /\ op = "idle"
    /\ op' = "sticker_and_mos"
    /\ out' = [at_g1 |-> sticker_and_mos(inp.eps0, inp.g1, inp.pe_cap,
                                         inp.discount, inp.mos_pct),
               at_g2 |-> sticker_and_mos(inp.eps0, inp.g2, inp.pe_cap,
                                         inp.discount, inp.mos_pct)]
    /\ UNCHANGED <<inp, store>>

NextSticker == Call_sticker_and_mos

SpecSticker == InitSticker /\ [][NextSticker]_vars

-----------------------------------------------------------------------------
(* Specification SpecPayback: payback_time applied to prices, owner        *)
(* earnings, growth rates and horizons.                                    *)

PaybackPrices   == {-1000, 0, 1000, 3000, 7000, 100000}
PaybackEarnings == Opt({-1000, 0, 1000})
PaybackGrowths  == {-500, 0, 500, 1000}
PaybackHorizons == {0, 1, 3, PaybackYears}

InitPayback ==
    /\ EmptyStore
    /\ inp \in [purchase_price : PaybackPrices, owner_earnings_ps : PaybackEarnings,
                growth : PaybackGrowths, max_years : PaybackHorizons]
    /\ op = "idle"
    /\ out = None

Call_payback_time ==
    /\ op = "idle"
    /\ op' = "payback_time"
    /\ out' = payback_time(inp.purchase_price, inp.owner_earnings_ps,
                           inp.growth, inp.max_years)
    /\ UNCHANGED <<inp, store>>

NextPayback == Call_payback_time

SpecPayback == InitPayback /\ [][NextPayback]_vars

-----------------------------------------------------------------------------
(* Specification SpecPersistence: companies with one to six consecutive    *)
(* years of facts whose ROIC is absent, below the threshold (EBIT 1), at   *)
(* 0.395 (EBIT 4) or at 1.58 (EBIT 16), and the persistence score.         *)

PersistenceYearSets == {{6}, {5, 6}, 4..6, 3..6, 2..6, 1..6}

PersistenceYearFacts ==
    {[NoFacts EXCEPT !.revenue = Some(4), !.ebit = e, !.shareholder_equity = Some(5),
                     !.total_debt = Some(3), !.cash = Some(0)] :
        e \in Opt({1, 4, 16})}

FactsPersistence == UNION {[Y -> PersistenceYearFacts] : Y \in PersistenceYearSets}

Call_roic_persistence_score(cik) ==
    /\ inp' = [cik |-> cik]
    /\ op' = "roic_persistence_score"
    /\ out' = roic_persistence_score(cik, PersistYears, PersistThreshold)
    /\ UNCHANGED store

NextPersistence ==
    \/ \E facts \in FactsPersistence :
          ingest_companyfacts_richer_by_ticker("AAA", facts)
    \/ \E cik \in KnownCiks : Call_roic_persistence_score(cik)

SpecPersistence == InitStore /\ [][NextPersistence]_vars

-----------------------------------------------------------------------------
(* Specification SpecDebtEquity: companies with one or two balance-sheet   *)
(* years, and latest_debt_to_equity.                                       *)

DebtEquityYearFacts ==
    {[NoFacts EXCEPT !.revenue = Some(4), !.total_debt = d, !.shareholder_equity = e] :
        d \in Opt({0, 3}), e \in Opt({-5, 0, 5})}

FactsDebtEquity == [{6} -> DebtEquityYearFacts] \cup [{5, 6} -> DebtEquityYearFacts]

Call_latest_debt_to_equity(cik) ==
    /\ inp' = [cik |-> cik]
    /\ op' = "latest_debt_to_equity"
    /\ out' = latest_debt_to_equity(cik)
    /\ UNCHANGED store

NextDebtEquity ==
    \/ \E t \in Tickers, facts \in FactsDebtEquity :
          ingest_companyfacts_richer_by_ticker(t, facts)
    \/ \E cik \in KnownCiks : Call_latest_debt_to_equity(cik)

SpecDebtEquity == InitStore /\ [][NextDebtEquity]_vars

-----------------------------------------------------------------------------
(* Specification SpecJoin: companies with years 5 and 6, ingested to the   *)
(* end or interrupted, and the derived year records read for them.         *)

JoinYearFacts ==
    {[NoFacts EXCEPT !.revenue = Some(4), !.ebit = e, !.cfo = c,
                     !.shareholder_equity = q] :
        e \in Opt({4}), c \in Opt({3}), q \in Opt({5})}

FactsJoin == [{6} -> JoinYearFacts] \cup [{5, 6} -> JoinYearFacts]

Call_fetch_cf_bs_for_roic(cik) ==
    /\ inp' = [cik |-> cik]
    /\ op' = "_fetch_cf_bs_for_roic"
    /\ out' = _fetch_cf_bs_for_roic(cik)
    /\ UNCHANGED store

NextJoin ==
    \/ \E t \in Tickers, facts \in FactsJoin :
          ingest_companyfacts_richer_by_ticker(t, facts)
    \/ \E t \in Tickers, facts \in FactsJoin, fy \in {5, 6}, done \in 0..2 :
          ingest_interrupted(t, facts, fy, done)
    \/ \E cik \in KnownCiks : Call_fetch_cf_bs_for_roic(cik)
    \/ \E cik \in KnownCiks : Call_roic_series(cik)

SpecJoin == InitStore /\ [][NextJoin]_vars

-----------------------------------------------------------------------------
(* Specification SpecReingest: up to MaxRuns ingestions, of the same or of *)
(* different tickers, with the same or with changed facts, and the         *)
(* income-statement queries.                                               *)

MaxRuns == 2

ReingestYearFacts ==
    {[NoFacts EXCEPT !.revenue = Some(4), !.eps_diluted = e] : e \in {Some(1), Some(2)}}

FactsReingest == [{6} -> ReingestYearFacts] \cup [{5, 6} -> ReingestYearFacts]

Call_fetch_is_series(cik) ==
    /\ inp' = [cik |-> cik]
    /\ op' = "_fetch_is_series"
    /\ out' = _fetch_is_series(cik)
    /\ UNCHANGED store

Call_latest_eps(cik) ==
    /\ inp' = [cik |-> cik]
    /\ op' = "latest_eps"
    /\ out' = latest_eps(cik)
    /\ UNCHANGED store

NextReingest ==
    \/ \E t \in Tickers, facts \in FactsReingest :
          ingests < MaxRuns /\ ingest_run(t, facts)
    \/ \E cik \in KnownCiks : Call_fetch_is_series(cik)
    \/ \E cik \in KnownCiks : Call_latest_eps(cik)

SpecReingest == InitStore /\ [][NextReingest]_vars

-----------------------------------------------------------------------------
(* Specification SpecScores: companies with one, three or six years of     *)
(* EBIT, gross profit and capital, or with one or two years of cash flows, *)
(* and the moat and management scores.                                     *)

MoatYearFacts ==
    {[NoFacts EXCEPT !.revenue = Some(4), !.ebit = e, !.gross_profit = gp,
                     !.shareholder_equity = Some(5), !.total_debt = Some(3),
                     !.cash = Some(0)] :
        e \in Opt({-4, 1, 4}), gp \in Opt({1, 3})}

(* Six years on file: the gross profit varies, the EBIT is 4 *)
LongMoatYearFacts == {yf \in MoatYearFacts : yf.ebit = Some(4) /\ yf.gross_profit # None}

FactsMoat ==
    [{6} -> MoatYearFacts] \cup [4..6 -> MoatYearFacts] \cup [1..6 -> LongMoatYearFacts]

Call_compute_moat(cik) ==
    /\ inp' = [cik |-> cik]
    /\ op' = "compute_moat"
    /\ out' = compute_moat(cik)
    /\ UNCHANGED store

NextScores ==
    \/ \E t \in Tickers, facts \in FactsMoat \cup FactsManagement :
          ingest_companyfacts_richer_by_ticker(t, facts)
    \/ \E cik \in KnownCiks : Call_compute_moat(cik)
    \/ \E cik \in KnownCiks : Call_compute_management(cik)

SpecScores == InitStore /\ [][NextScores]_vars

-----------------------------------------------------------------------------
(* Specification SpecResilience: companies with one year of EBIT,          *)
(* interest, debt and equity, or with three balance-sheet years, and       *)
(* compute_balance_sheet_resilience.                                       *)

(* <<ebit, interest_expense>>: no coverage, then coverage 16, 8, 3, 1, -2 *)
CoveragePairs ==
    {<<None, None>>, <<Some(16), Some(0)>>, <<Some(16), Some(1)>>, <<Some(16), Some(2)>>,
     <<Some(6), Some(2)>>, <<Some(2), Some(2)>>, <<Some(-4), Some(2)>>}

(* <<total_debt, shareholder_equity>>: debt/equity 0, 0.6, 1, 4, -0.6 and  *)
(* none                                                                    *)
DebtEquityPairs ==
    {<<None, None>>, <<Some(0), Some(5)>>, <<Some(3), Some(5)>>, <<Some(5), Some(5)>>,
     <<Some(20), Some(5)>>, <<Some(3), Some(-5)>>, <<Some(3), Some(0)>>}

ResilienceYearFacts ==
    {[NoFacts EXCEPT !.revenue = Some(4), !.ebit = c[1], !.interest_expense = c[2],
                     !.total_debt = d[1], !.shareholder_equity = d[2]] :
        c \in CoveragePairs, d \in DebtEquityPairs}

(* A year of a three-year history: the net debt is the total debt *)
NetDebtYearFacts ==
    {[NoFacts EXCEPT !.revenue = Some(4), !.total_debt = Some(d), !.cash = Some(0)] :
        d \in {0, 5, 6, 7}}

(* The same with a coverage of 8 and an equity of 5 *)
FullNetDebtYearFacts ==
    {[yf EXCEPT !.ebit = Some(16), !.interest_expense = Some(2),
                !.shareholder_equity = Some(5)] : yf \in NetDebtYearFacts}

FactsResilience ==
    [{6} -> ResilienceYearFacts] \cup [4..6 -> NetDebtYearFacts]
        \cup [4..6 -> FullNetDebtYearFacts]

Call_compute_balance_sheet_resilience(cik) ==
    /\ inp' = [cik |-> cik]
    /\ op' = "compute_balance_sheet_resilience"
    /\ out' = compute_balance_sheet_resilience(cik)
    /\ UNCHANGED store

NextResilience ==
    \/ \E t \in Tickers, facts \in FactsResilience :
          ingest_companyfacts_richer_by_ticker(t, facts)
    \/ \E cik \in KnownCiks : Call_compute_balance_sheet_resilience(cik)

SpecResilience == InitStore /\ [][NextResilience]_vars

-----------------------------------------------------------------------------
(* Specification SpecFrame: two companies with one or two years of full    *)
(* statements, price snapshots, and the eight metric, score and valuation  *)
(* functions.                                                              *)

FrameYearA ==
    [NoFacts EXCEPT !.revenue = Some(4), !.gross_profit = Some(3), !.ebit = Some(4),
                    !.interest_expense = Some(2), !.taxes = Some(1),
                    !.eps_diluted = Some(2), !.shares_diluted = Some(2),
                    !.cash = Some(0), !.total_debt = Some(3),
                    !.shareholder_equity = Some(5),
                    !.cfo = Some(4), !.capex = Some(2), !.dividends = Some(1)]

FrameYearB ==
    [NoFacts EXCEPT !.revenue = Some(8), !.gross_profit = Some(2), !.ebit = Some(2),
                    !.interest_expense = Some(1), !.taxes = Some(1),
                    !.eps_diluted = Some(4), !.shares_diluted = Some(4),
                    !.cash = Some(2), !.total_debt = Some(5),
                    !.shareholder_equity = Some(5),
                    !.cfo = Some(2), !.capex = Some(1), !.buybacks = Some(1)]

FactsFrame ==
    {[fy \in {6} |-> FrameYearA],
     [fy \in {5, 6} |-> IF fy = 5 THEN FrameYearA ELSE FrameYearB],
     [fy \in {5, 6} |-> IF fy = 5 THEN FrameYearB ELSE FrameYearA]}

Call_compute_growth_metrics(cik) ==
    /\ inp' = [cik |-> cik]
    /\ op' = "compute_growth_metrics"
    /\ out' = compute_growth_metrics(cik)
    /\ UNCHANGED store

Call_quality_scores(cik) ==
    /\ inp' = [cik |-> cik]
    /\ op' = "quality_scores"
    /\ out' = quality_scores(cik)
    /\ UNCHANGED store

Call_margin_of_safety_recommendation(cik) ==
    /\ inp' = [cik |-> cik]
    /\ op' = "compute_margin_of_safety_recommendation"
    /\ out' = margin_of_safety_recommendation_of(cik)
    /\ UNCHANGED store

NextFrame ==
    \/ \E t \in Tickers, facts \in FactsFrame :
          ingests < MaxRuns /\ ingest_run(t, facts)
    \/ \E t \in Tickers : snapshot_price_for_ticker(t, Some(9 * One))
    \/ \E cik \in KnownCiks : Call_compute_growth_metrics(cik)
    \/ \E cik \in KnownCiks : Call_roic_series(cik)
    \/ \E cik \in KnownCiks : Call_quality_scores(cik)
    \/ \E cik \in KnownCiks : Call_compute_moat(cik)
    \/ \E cik \in KnownCiks : Call_compute_management(cik)
    \/ \E cik \in KnownCiks : Call_compute_balance_sheet_resilience(cik)
    \/ \E cik \in KnownCiks : Call_margin_of_safety_recommendation(cik)
    \/ \E t \in Tickers :
          Call_run_default_scenario(t, DefaultMosPct, None, DefaultPeCap, DefaultDiscount)

SpecFrame == InitStore /\ [][NextFrame]_vars

-----------------------------------------------------------------------------
(* Specification SpecSequence: up to MaxSequence ingestions in a row, of   *)
(* the same or of different tickers, each complete or interrupted, and the *)
(* two income-statement series.                                            *)

MaxSequence == 3

SequenceYear(e) == [NoFacts EXCEPT !.revenue = Some(4), !.eps_diluted = Some(e)]

FactsSequence ==
    {[fy \in {6} |-> SequenceYear(1)],
     [fy \in {5, 6} |-> IF fy = 5 THEN SequenceYear(1) ELSE SequenceYear(2)]}

Call_revenue_eps_series(cik) ==
    /\ inp' = [cik |-> cik]
    /\ op' = "revenue_eps_series"
    /\ out' = revenue_eps_series(cik)
    /\ UNCHANGED store

NextSequence ==
    \/ \E t \in Tickers, facts \in FactsSequence :
          ingests < MaxSequence /\ ingest_run(t, facts)
    \/ \E t \in Tickers, facts \in FactsSequence, fy \in FiscalYears, done \in {0, 1} :
          ingests < MaxSequence /\ ingest_interrupted_run(t, facts, fy, done)
    \/ \E cik \in KnownCiks : Call_fetch_is_series(cik)
    \/ \E cik \in KnownCiks : Call_revenue_eps_series(cik)

SpecSequence == InitStore /\ [][NextSequence]_vars

-----------------------------------------------------------------------------
(* Specification SpecBand: band_score applied to a ratio and one of the    *)
(* two bands compute_management uses.                                      *)

BandRatios == {50 * k : k \in (-10)..50}

Bands == {[low |-> ReinvestLow, high |-> ReinvestHigh],
          [low |-> PayoutLow, high |-> PayoutHigh]}

InitBand ==
    /\ EmptyStore
    /\ \E x \in BandRatios, band \in Bands :
          inp = [x |-> x, low |-> band.low, high |-> band.high]
    /\ op = "idle"
    /\ out = None

Call_band_score ==
    /\ op = "idle"
    /\ op' = "band_score"
    /\ out' = IF band_score_raises(inp.x, inp.low)
              THEN [exc |-> "ZeroDivisionError"]
              ELSE [exc |-> "none", score |-> band_score(inp.x, inp.low, inp.high)]
    /\ UNCHANGED <<inp, store>>

NextBand == Call_band_score

SpecBand == InitBand /\ [][NextBand]_vars

-----------------------------------------------------------------------------
(* Specification SpecOwnerGrowth: one company whose cash-flow facts cover  *)
(* one to three years, with the operating cash flow or the capital         *)
(* expenditure of any year absent, and the owner-earnings growth.          *)

OwnerGrowthYearSets == {{6}, {5, 6}, {0, 1, 6}, {0, 5, 6}}

OwnerGrowthYearFacts ==
    {[NoFacts EXCEPT !.revenue = Some(4), !.cfo = c, !.capex = x] :
        c \in Opt({2, 4}), x \in Opt({1})}

FactsOwnerGrowth == UNION {[Y -> OwnerGrowthYearFacts] : Y \in OwnerGrowthYearSets}

Call_latest_owner_earnings_growth(cik) ==
    /\ inp' = [cik |-> cik]
    /\ op' = "latest_owner_earnings_growth"
    /\ out' = latest_owner_earnings_growth(cik)
    /\ UNCHANGED store

NextOwnerGrowth ==
    \/ \E t \in Tickers, facts \in FactsOwnerGrowth :
          ingest_companyfacts_richer_by_ticker(t, facts)
    \/ \E cik \in KnownCiks : Call_latest_owner_earnings_growth(cik)

SpecOwnerGrowth == InitStore /\ [][NextOwnerGrowth]_vars

-----------------------------------------------------------------------------
(* Specification SpecTerminalPe: sticker_and_mos applied to the growth     *)
(* and the P/E cap of a valuation request: an absent or zero pe_cap of the *)
(* request becomes the default (routes.py 217), every other integer is     *)
(* passed on as it is.                                                     *)

RequestPeCaps == {-1, 0, 3, 5, 8, DefaultPeCap, 30}

InitTerminalPe ==
    /\ EmptyStore
    /\ inp \in [eps0 : StickerEps, g : StickerGrowths, pe_cap : Opt(RequestPeCaps)]
    /\ op = "idle"
    /\ out = None

Call_sticker_and_mos_of_request ==
    /\ op = "idle"
    /\ op' = "sticker_and_mos"
    /\ out' = sticker_and_mos(inp.eps0, inp.g,
                              Get(PyOr(inp.pe_cap, Some(DefaultPeCap))),
                              DefaultDiscount, DefaultMosPct)
    /\ UNCHANGED <<inp, store>>

NextTerminalPe == Call_sticker_and_mos_of_request

SpecTerminalPe == InitTerminalPe /\ [][NextTerminalPe]_vars

-----------------------------------------------------------------------------
(* Specification SpecTrend: the moat figures of a company with no ROIC     *)
(* on file and zero to MaxMargins gross margins.                           *)

MaxMargins == 6

GrossMargins == {200, 400, 500}

InitTrend ==
    /\ EmptyStore
    /\ \E n \in 0..MaxMargins : \E gm \in [1..n -> GrossMargins] :
          inp = [gm_values |-> gm]
    /\ op = "idle"
    /\ out = None

Call_moat_of ==
    /\ op = "idle"
    /\ op' = "compute_moat"
    /\ out' = moat_of(<<>>, None, inp.gm_values, None)
    /\ UNCHANGED <<inp, store>>

NextTrend == Call_moat_of

SpecTrend == InitTrend /\ [][NextTrend]_vars

-----------------------------------------------------------------------------
(* Specification SpecAlerts: a company with or without an EPS on file,     *)
(* alert rules of both kinds on it, and the evaluation of the rules at a   *)
(* price below and at the threshold (below and above the MOS price).       *)

AlertYear(e) == [NoFacts EXCEPT !.revenue = Some(4), !.eps_diluted = e]

FactsAlerts == {[fy \in {6} |-> AlertYear(e)] : e \in Opt({2})}

AlertBodies ==
    {[rule_type |-> "price_below_mos", threshold |-> None]} \cup
    [rule_type : {"price_below_threshold"}, threshold : Opt({20000})]

AlertPrices == Opt({3000, 20000})

NextAlerts ==
    \/ \E t \in Tickers \cap DOMAIN TickerMap, facts \in FactsAlerts :
          ingest_companyfacts_richer_by_ticker(t, facts)
    \/ \E t \in Tickers, body \in AlertBodies : create_alert(t, body)
    \/ \E prices \in [{r.rid : r \in EnabledRules} -> AlertPrices] :
          evaluate_alerts(prices)

SpecAlerts == InitStore /\ [][NextAlerts]_vars

-----------------------------------------------------------------------------
(* Specification SpecExtended: one company whose revenue and EPS facts     *)
(* cover two or three years, the window CAGR of its series for every       *)
(* window width, and compute_growth_metrics_extended.                      *)

ExtendedYearSets == {{5, 6}, {4, 5, 6}, {0, 5, 10}}

ExtendedYearFacts ==
    {[NoFacts EXCEPT !.revenue = Some(1), !.eps_diluted = Some(2)],
     [NoFacts EXCEPT !.revenue = Some(2)],
     [NoFacts EXCEPT !.eps_diluted = Some(2)]}

FactsExtended == UNION {[Y -> ExtendedYearFacts] : Y \in ExtendedYearSets}

(* Lines 411-416: the years and one value column of the series *)
SeriesColumn(cik, field) ==
    LET series == _fetch_is_series(cik)
    IN  [years  |-> [i \in 1..Len(series) |-> series[i].fy],
         values |-> [i \in 1..Len(series) |->
                        IF field = "revenue" THEN series[i].revenue ELSE series[i].eps]]

Call_window_cagr_of_series(cik, field, w) ==
    /\ inp' = [years |-> SeriesColumn(cik, field).years,
               values |-> SeriesColumn(cik, field).values, window_years |-> w]
    /\ op' = "_calculate_window_cagr"
    /\ out' = _calculate_window_cagr(SeriesColumn(cik, field).years,
                                     SeriesColumn(cik, field).values, w)
    /\ UNCHANGED store

Call_compute_growth_metrics_extended(cik) ==
    /\ inp' = [cik |-> cik]
    /\ op' = "compute_growth_metrics_extended"
    /\ out' = compute_growth_metrics_extended(cik)
    /\ UNCHANGED store

NextExtended ==
    \/ \E facts \in FactsExtended :
          ingest_companyfacts_richer_by_ticker("AAA", facts)
    \/ \E cik \in KnownCiks, field \in {"revenue", "eps"}, w \in Windows :
          Call_window_cagr_of_series(cik, field, w)
    \/ \E cik \in KnownCiks : Call_compute_growth_metrics_extended(cik)

SpecExtended == InitStore /\ [][NextExtended]_vars

-----------------------------------------------------------------------------
(* Specification SpecShareClass: ingestions of the two share classes of    *)
(* one company and of a second company, a price snapshot of AAA, and the   *)
(* resolution of the tickers.                                              *)

FactsShareClass == FactsSequence

Call_resolve_cik_by_ticker(ticker) ==
    /\ inp' = [ticker |-> ticker]
    /\ op' = "resolve_cik_by_ticker"
    /\ out' = resolve_cik_by_ticker(ticker)
    /\ UNCHANGED store

Call_get_company_cik(ticker) ==
    /\ inp' = [ticker |-> ticker]
    /\ op' = "get_company_cik"
    /\ out' = get_company_cik(ticker)
    /\ UNCHANGED store

NextShareClass ==
    \/ \E t \in DOMAIN TickerMap, facts \in FactsShareClass :
          ingests < MaxRuns /\ ingest_run(t, facts)
    \/ snapshot_price_for_ticker("AAA", Some(3000))
    \/ \E t \in DOMAIN TickerMap : Call_resolve_cik_by_ticker(t)
    \/ \E t \in DOMAIN TickerMap : Call_get_company_cik(t)

SpecShareClass == InitStore /\ [][NextShareClass]_vars

-----------------------------------------------------------------------------
(* Specification SpecRefresh: a company on file and the workers serving    *)
(* refresh_meaning_analysis requests side by side.                         *)

NextRefresh ==
    \/ \E t \in Tickers, facts \in FactsSequence :
          ingest_companyfacts_richer_by_ticker(t, facts)
    \/ \E w \in Workers, t \in Tickers, status \in {"ok", "not_found"} :
          refresh_meaning_check(w, t, status)
    \/ \E w \in Workers : refresh_meaning_insert(w)

SpecRefresh == InitStore /\ [][NextRefresh]_vars

-----------------------------------------------------------------------------
(* Claims about cagr and _calculate_window_cagr *)

(* C4: cagr(first, last, years) returns None whenever first is None, last  *)
(* is None, first <= 0, last <= 0 or years <= 0; otherwise it returns a    *)
(* value, which is 0 when first = last.                                    *)
C4_CagrGuards ==
    op = "cagr" =>
        LET undefined == \/ inp.first = None
                         \/ inp.last = None
                         \/ inp.years <= 0
                         \/ Get(inp.first) <= 0
                         \/ Get(inp.last) <= 0
        IN  /\ undefined => out = None
            /\ ~undefined => out # None
            /\ (~undefined /\ inp.first = inp.last) => out = Some(0)

C4_Witness ==
    /\ op = "cagr"
    /\ inp = [first |-> Some(4), last |-> Some(4), years |-> 3]
    /\ out = Some(0)

(* The indices the window rule picks: the earliest index whose year is     *)
(* >= last_year - (window - 1) with a value, the latest index with a value *)
WindowStarts(years, values, w) ==
    {i \in 1..Len(years) :
        years[i] >= years[Len(years)] - (w - 1) /\ values[i] # None}

WindowEnds(years, values) == {i \in 1..Len(years) : values[i] # None}

(* C2: _calculate_window_cagr returns cagr(value_start, value_end,         *)
(* year_end - year_start) for the earliest start in the window and the     *)
(* latest end that have a value, and None when there is no such pair or    *)
(* the span is <= 0 years.                                                 *)
C2_WindowRule ==
    op = "_calculate_window_cagr" =>
        LET S == WindowStarts(inp.years, inp.values, inp.window_years)
            E == WindowEnds(inp.years, inp.values)
        IN  IF S = {} \/ E = {} THEN out = None
            ELSE LET s == CHOOSE i \in S : \A j \in S : i <= j
                     e == CHOOSE i \in E : \A j \in E : i >= j
                     span == inp.years[e] - inp.years[s]
                 IN  IF span <= 0 THEN out = None
                     ELSE out = cagr(inp.values[s], inp.values[e], span)

C2_Witness ==
    /\ op = "_calculate_window_cagr"
    /\ inp.years = <<0, 5, 10>>
    /\ inp.values = <<Some(1), Some(2), Some(4)>>
    /\ inp.window_years = 10
    /\ out = cagr(Some(2), Some(4), 5)
    /\ out # None

AllPositive(values) == \A i \in 1..Len(values) : values[i] # None /\ Get(values[i]) > 0

DirectCagr(years, values) ==
    cagr(values[1], values[Len(values)], years[Len(years)] - years[1])

(* C3 as stated: whenever every year of the series has a positive value,   *)
(* the 10-year window result is the direct cagr over the first and last    *)
(* elements (to within two thousandths, the rounding of the fixed point).  *)
C3_TenYearWindowIsDirect ==
    (/\ op = "_calculate_window_cagr"
     /\ inp.window_years = 10
     /\ Len(inp.years) >= 1
     /\ AllPositive(inp.values))
    => LET direct == DirectCagr(inp.years, inp.values)
       IN  IF out = None \/ direct = None THEN out = direct
           ELSE Get(out) - Get(direct) \in -2..2

(* C3 amended: the same, for a series whose last fiscal year is at most 9  *)
(* years after its first; the two results are then the same call of cagr.  *)
C3_TenYearWindowIsDirectWithinSpan ==
    (/\ op = "_calculate_window_cagr"
     /\ inp.window_years = 10
     /\ Len(inp.years) >= 1
     /\ AllPositive(inp.values)
     /\ inp.years[Len(inp.years)] - inp.years[1] <= 9)
    => out = DirectCagr(inp.years, inp.values)

C3_Witness ==
    /\ op = "_calculate_window_cagr"
    /\ inp.window_years = 10
    /\ inp.years = <<0, 4, 9>>
    /\ inp.values = <<Some(1), Some(4), Some(2)>>
    /\ out = cagr(Some(1), Some(2), 9)
    /\ out # None
-----------------------------------------------------------------------------
(* Claims about roic_series *)

(* The rate the claim names: taxes/|ebit| clamped into [0, 0.35] when      *)
(* taxes is present and ebit # 0, and 0.21 otherwise                       *)
C5_Rate(ebit, taxes) ==
    IF taxes # None /\ ebit # 0
    THEN LET q == FxDiv(Get(taxes), Abs(ebit))
         IN  IF q < 0 THEN 0 ELSE IF q > 350 THEN 350 ELSE q
    ELSE 210

(* C5: for every year of roic_series where ebit, equity, debt and cash are *)
(* present, the ROIC returned is EBIT * (1 - rate) / invested capital with *)
(* rate the clamped taxes/|ebit| (0.21 without taxes or with ebit = 0),    *)
(* and that rate lies within [0, 0.35].                                    *)
C5_TaxRateClamped ==
    op = "roic_series" =>
        LET rows == SelectSeq(_fetch_cf_bs_for_roic(inp.cik), LAMBDA r : r.fy # None)
        IN  /\ Len(out) = Len(rows)
            /\ \A i \in 1..Len(rows) :
                 LET r == rows[i]
                 IN  (r.ebit # None /\ r.equity # None /\ r.debt # None /\ r.cash # None)
                     => LET rate    == C5_Rate(Get(r.ebit), r.taxes)
                            inv_cap == Get(r.equity) + Get(r.debt) - Get(r.cash)
                        IN  /\ rate \in 0..350
                            /\ inv_cap # 0 =>
                                 out[i].roic =
                                   Some(FxDiv(Get(r.ebit) * (One - rate), inv_cap * One))

(* taxes twice the EBIT: the rate is capped at 0.35, ROIC = 4 * 0.65 / 8 *)
C5_Witness ==
    /\ op = "roic_series"
    /\ Len(out) = 1
    /\ out[1].roic = Some(325)
    /\ \E si \in statement_is : si.ebit = Some(4) /\ si.taxes = Some(8)

-----------------------------------------------------------------------------
(* Claims about the valuation scenario *)

(* The company the scenario's ticker resolves to has an EPS value on file *)
HasEps(ticker) ==
    \E c \in company, f \in filing, si \in statement_is :
        /\ c.ticker = ticker /\ f.cik = c.cik
        /\ si.filing_id = Some(f.id) /\ si.eps_diluted # None

(* The first available value in the order override, EPS 5y, revenue 5y,    *)
(* EPS 10y, revenue 10y, and 0.10 when there is none                       *)
FirstAvailableGrowth(g_override, growths) ==
    Get(Coalesce(g_override,
        Coalesce(growths.eps_cagr_5y,
        Coalesce(growths.rev_cagr_5y,
        Coalesce(growths.eps_cagr_10y,
        Coalesce(growths.rev_cagr_10y, Some(DefaultGrowth)))))))

(* C8: run_default_scenario resolves the growth assumption g as the first  *)
(* available (non-None) value in the order explicit override, EPS 5y CAGR, *)
(* revenue 5y CAGR, EPS 10y CAGR, revenue 10y CAGR, and 0.10 only when     *)
(* none is available; an available earlier value, 0 included, is never     *)
(* skipped in favour of a later one.                                       *)
C8_GrowthFirstAvailable ==
    (op = "run_default_scenario" /\ out.exc = "none") =>
        out.inputs.g =
            FirstAvailableGrowth(inp.g_override,
                compute_growth_metrics(Get(resolve_cik_by_ticker(inp.ticker))))

(* A flat EPS over years 5 and 6 (EPS 5y CAGR = 0) with a doubling revenue: *)
(* the scenario takes the revenue CAGR 1.0                                  *)
C8_Witness ==
    /\ op = "run_default_scenario"
    /\ inp.g_override = None
    /\ out.exc = "none"
    /\ compute_growth_metrics(Get(resolve_cik_by_ticker(inp.ticker))).eps_cagr_5y = Some(0)
    /\ out.inputs.g = One

ScenarioFails(ticker) == ~HasEps(ticker)

(* C10: both endpoints that run the valuation scenario, POST               *)
(* /company/{ticker}/valuation and GET                                     *)
(* /company/{ticker}/export/valuation.json, answer the scenario's          *)
(* caller-error failure (unknown ticker, missing EPS) with a 404; the      *)
(* error never leaves the API layer untranslated.                          *)
C10_EndpointsTranslate ==
    (op \in {"run_valuation", "export_valuation_json"} /\ ScenarioFails(inp.ticker))
        => out.status = 404

(* The export endpoint called for a ticker that was never ingested *)
C10_Witness ==
    /\ op = "export_valuation_json"
    /\ inp.ticker = "ZZZ"
    /\ out.status = 500
    /\ out.exc = "ValueError"

(* The POST endpoint alone does translate *)
C10_PostTranslates ==
    (op = "run_valuation" /\ ScenarioFails(inp.ticker)) => out.status = 404

-----------------------------------------------------------------------------
(* Claims about the Four-Ms scores *)

(* C1: the Four-Ms score functions never raise, whatever the store holds   *)
(* (fields None, zero, negative or positive, years with zero or negative   *)
(* cash flow from operations included): every divisor is guarded and an    *)
(* unavailable ratio yields None instead of an exception.                  *)
C1_FourMsNeverRaise ==
    op = "compute_management" => out.exc = "none"

(* A year with a negative cash flow from operations and a dividend: the    *)
(* payout ratio is negative and band_score divides it by low = 0.0         *)
C1_Witness ==
    /\ op = "compute_management"
    /\ out.exc = "ZeroDivisionError"
    /\ \E j \in ManagementJoin(inp.cik) :
          /\ Col(j.cf, "cfo") # None /\ Get(Col(j.cf, "cfo")) < 0
          /\ Col(j.cf, "dividends") # None

(* C6: compute_margin_of_safety_recommendation returns recommended_mos     *)
(* within [0.30, 0.70] for every combination of moat, management and       *)
(* balance-sheet score (each possibly None, zero or out of its nominal     *)
(* range) and growth (possibly None or negative).                          *)
C6_MosWithinBounds ==
    op = "compute_margin_of_safety_recommendation" =>
        (out.recommended_mos >= MinMos /\ out.recommended_mos <= MaxMos)

(* No moat score, a negative management score and shrinking earnings: the  *)
(* sum base + adj exceeds 0.70 and the recommendation is 0.70              *)
C6_Witness ==
    /\ op = "compute_margin_of_safety_recommendation"
    /\ inp.moat.score = None
    /\ inp.mgmt.score = Some(-700)
    /\ inp.balance_sheet.score = Some(0)
    /\ inp.growths.eps_cagr_5y = Some(-900)
    /\ out.recommended_mos = MaxMos

(* The score the recommendation is to use: the computed one when it is     *)
(* available, 0.5 when it is None                                          *)
ScoreOrDefault(score) == IF score # None THEN Get(score) ELSE DefaultScore

(* C7: the moat and management scores used, and reported in drivers, equal *)
(* the computed scores whenever those are available, for every value in    *)
(* [0, 1] including exactly 0; 0.5 is substituted only when the score is   *)
(* None.                                                                   *)
C7_ScoresKept ==
    op = "compute_margin_of_safety_recommendation" =>
        /\ (inp.moat.score = None \/ Get(inp.moat.score) \in 0..One)
              => out.drivers.moat_score = ScoreOrDefault(inp.moat.score)
        /\ (inp.mgmt.score = None \/ Get(inp.mgmt.score) \in 0..One)
              => out.drivers.mgmt_score = ScoreOrDefault(inp.mgmt.score)

(* A management score of exactly 0 reported as 0.5 *)
C7_Witness ==
    /\ op = "compute_margin_of_safety_recommendation"
    /\ inp.mgmt.score = Some(0)
    /\ out.drivers.mgmt_score = DefaultScore

(* compute_management does return a score of exactly 0: a payout of twice  *)
(* the cash flow from operations and no capex on file                      *)
C7_ZeroScoreComputed ==
    /\ op = "compute_management"
    /\ out.exc = "none"
    /\ out.score = Some(0)

-----------------------------------------------------------------------------
(* Claims about sticker_and_mos and payback_time *)

(* The sticker price of the call's other inputs at growth g *)
StickerAt(g) ==
    sticker_and_mos(inp.eps0, g, inp.pe_cap, inp.discount, inp.mos_pct).sticker

(* sticker(g) = sticker(0.5) for g > 0.5 and sticker(g) = sticker(0) for   *)
(* g < 0                                                                   *)
StickerCapped ==
    /\ inp.g1 > MaxGrowth => out.at_g1.sticker = StickerAt(MaxGrowth)
    /\ inp.g1 < 0 => out.at_g1.sticker = StickerAt(0)

RECURSIVE YearEarnings(_)
YearEarnings(y) ==
    IF y = 1 THEN Get(inp.owner_earnings_ps)
    ELSE FxMul(YearEarnings(y - 1), One + Max(0, inp.growth))

RECURSIVE CumulativeEarnings(_)
CumulativeEarnings(y) ==
    IF y = 0 THEN 0 ELSE CumulativeEarnings(y - 1) + YearEarnings(y)

PaidBackYears ==
    {y \in 1..inp.max_years : CumulativeEarnings(y) >= inp.purchase_price}

(* C12: payback_time returns the smallest year y in 1..max_years at which  *)
(* the cumulative earnings are >= purchase_price (equality counts), None   *)
(* when there is no such year, and None when purchase_price <= 0 or        *)
(* owner_earnings_ps is None or <= 0.                                      *)
C12_PaybackYear ==
    op = "payback_time" =>
        IF \/ inp.purchase_price <= 0
           \/ inp.owner_earnings_ps = None
           \/ Get(inp.owner_earnings_ps) <= 0
        THEN out = None
        ELSE IF PaidBackYears = {} THEN out = None
        ELSE /\ out # None
             /\ Get(out) \in PaidBackYears
             /\ \A y \in PaidBackYears : Get(out) <= y

(* Flat earnings of 1.0 against a price of 3.0: paid back in year 3, when  *)
(* the sum equals the price                                                *)
C12_Witness ==
    /\ op = "payback_time"
    /\ inp.purchase_price = 3000 /\ inp.owner_earnings_ps = Some(1000)
    /\ inp.growth = 0 /\ inp.max_years = 3
    /\ out = Some(3)

-----------------------------------------------------------------------------
(* Claims about the return and coverage metrics *)

(* The ROIC values the persistence score considers: the latest five *)
ConsideredRoics(cik) == LastN(RoicValues(roic_series(cik)), PersistYears)

AllAboveAndStable(rs) ==
    /\ Len(rs) >= 2
    /\ \A i \in 1..Len(rs) : rs[i] >= PersistThreshold
    /\ FxDiv(pstdev(rs), Abs(mean(rs))) < LowCv

(* C13: whenever at least 2 ROIC values are available and all considered   *)
(* values are >= 0.15 with a coefficient of variation < 0.15, the score is *)
(* the count of years at or above the threshold plus 1, capped at 5, for   *)
(* every number of available values from 2 to 5.                           *)
C13_StabilityBonus ==
    op = "roic_persistence_score" =>
        LET rs == ConsideredRoics(inp.cik)
        IN  AllAboveAndStable(rs) => out = Some(Min(MaxPersistScore, Len(rs) + 1))

(* Three years of ROIC 0.395: the score is 3, without the bonus *)
C13_Witness ==
    /\ op = "roic_persistence_score"
    /\ ConsideredRoics(inp.cik) = <<395, 395, 395>>
    /\ out = Some(3)

(* The balance-sheet rows of the company's latest balance-sheet year *)
LatestBalanceSheets(cik) ==
    {bs \in JoinFiling(statement_bs, cik) :
        \A other \in JoinFiling(statement_bs, cik) : bs.fy >= other.fy}

(* C14: latest_debt_to_equity returns total_debt / shareholder_equity of   *)
(* the latest balance-sheet year whenever its total_debt is present (any   *)
(* value, 0 included) and its shareholder_equity is present and non-zero;  *)
(* it returns None only when that equity is zero or absent.                *)
C14_DebtToEquity ==
    op = "latest_debt_to_equity" =>
        \A bs \in LatestBalanceSheets(inp.cik) :
            /\ (bs.total_debt # None /\ Truthy(bs.shareholder_equity))
                  => out = Some(FxDiv(Get(bs.total_debt), Get(bs.shareholder_equity)))
            /\ (bs.total_debt # None /\ out = None) => ~Truthy(bs.shareholder_equity)

(* A debt-free latest balance sheet with equity 5: None instead of 0.0 *)
C14_Witness ==
    /\ op = "latest_debt_to_equity"
    /\ \E bs \in LatestBalanceSheets(inp.cik) :
          bs.total_debt = Some(0) /\ bs.shareholder_equity = Some(5)
    /\ out = None

(* The derived records of a fiscal year in the output of                   *)
(* _fetch_cf_bs_for_roic or roic_series                                    *)
RecordsOfYear(records, fy) ==
    {i \in 1..Len(records) :
        IF op = "roic_series" THEN records[i].fy = fy ELSE records[i].fy = Some(fy)}

(* C15: for every fiscal year for which the company has an                 *)
(* income-statement or balance-sheet row, the output of                    *)
(* _fetch_cf_bs_for_roic (and of roic_series, which consumes it) has a     *)
(* record for that year, also when the year's cash-flow row is absent; the *)
(* absent statement's fields are None.                                     *)
C15_LeftJoinKeepsYears ==
    op \in {"_fetch_cf_bs_for_roic", "roic_series"} =>
        \A row \in JoinFiling(statement_is, inp.cik) \cup JoinFiling(statement_bs, inp.cik) :
            /\ RecordsOfYear(out, row.fy) # {}
            /\ (op = "_fetch_cf_bs_for_roic" /\
                 ~ \E cf \in JoinFiling(statement_cf, inp.cik) : cf.fy = row.fy)
                  => \A i \in RecordsOfYear(out, row.fy) :
                        out[i].cfo = None /\ out[i].capex = None

(* An ingestion interrupted before the cash-flow row of year 6: the income *)
(* statement of year 6 is on file with EBIT 4, and the only record read    *)
(* has no year and no EBIT                                                 *)
C15_Witness ==
    /\ op = "_fetch_cf_bs_for_roic"
    /\ \E si \in JoinFiling(statement_is, inp.cik) : si.fy = 6 /\ si.ebit = Some(4)
    /\ JoinFiling(statement_cf, inp.cik) = {}
    /\ Len(out) = 1
    /\ out[1].fy = None /\ out[1].ebit = None

(* With the cash-flow row of every income-statement and balance-sheet year *)
(* on file, every such year has its record                                 *)
C15_KeptWithCashFlow ==
    op \in {"_fetch_cf_bs_for_roic", "roic_series"} =>
        \A row \in JoinFiling(statement_is, inp.cik) \cup JoinFiling(statement_bs, inp.cik) :
            (\E cf \in statement_cf : cf.filing_id = row.filing_id)
                => RecordsOfYear(out, row.fy) # {}

-----------------------------------------------------------------------------
(* Claims about ingestion *)

(* The facts of a statement row: the row without its id and its filing *)
FactsOfRow(r) == [r EXCEPT !.id = 0, !.filing_id = None]

(* The step is a completed ingestion *)
IngestionStep ==
    /\ op' = "ingest_companyfacts_richer_by_ticker"
    /\ "cik" \in DOMAIN out'

(* The step is an ingestion of a ticker that is on file, with the facts    *)
(* that are on file: every year it covers has its filing, and every row it *)
(* writes repeats the facts of a row of that company and year              *)
SameDataAgain ==
    /\ IngestionStep
    /\ \A fy \in out'.years :
          \E f \in filing : f.accession = Accession(out'.cik, fy)
    /\ \A r \in statement_is' \ statement_is :
          \E q \in JoinFiling(statement_is, out'.cik) : FactsOfRow(q) = FactsOfRow(r)
    /\ \A r \in statement_bs' \ statement_bs :
          \E q \in JoinFiling(statement_bs, out'.cik) : FactsOfRow(q) = FactsOfRow(r)
    /\ \A r \in statement_cf' \ statement_cf :
          \E q \in JoinFiling(statement_cf, out'.cik) : FactsOfRow(q) = FactsOfRow(r)

(* C16: ingestion is idempotent: ingesting the same ticker again with      *)
(* unchanged SEC data leaves exactly the rows the first ingestion left:    *)
(* one company row, one filing per fiscal year, and no additional          *)
(* (duplicate or orphaned) statement rows.                                 *)
C16_IngestionIdempotent ==
    [][SameDataAgain =>
          /\ company' = company
          /\ filing' = filing
          /\ statement_is' = statement_is
          /\ statement_bs' = statement_bs
          /\ statement_cf' = statement_cf]_vars

(* After a second ingestion of the same year: two income-statement rows of *)
(* year 6 with the same facts, one of them without a filing                *)
C16_Witness ==
    /\ op = "ingest_companyfacts_richer_by_ticker"
    /\ Cardinality(company) = 1
    /\ \E r, q \in statement_is :
          /\ r.fy = 6 /\ q.fy = 6
          /\ r.filing_id = None /\ q.filing_id # None
          /\ FactsOfRow(r) = FactsOfRow(q)

(* The income-statement series of the company just ingested reads every    *)
(* row the step wrote                                                      *)
ReadsBack(series, rows) ==
    \A r \in rows :
        /\ \E i \in 1..Len(series) : series[i].fy = r.fy
        /\ \A i \in 1..Len(series) :
              series[i].fy = r.fy =>
                 /\ series[i].revenue = r.revenue
                 /\ series[i].eps = r.eps_diluted
                 /\ series[i].ebit = r.ebit

(* C17: after a ticker is re-ingested with changed facts for a year that   *)
(* is on file, the facts the metrics queries read for that company and     *)
(* year are the newly ingested ones.                                       *)
C17_ReingestUpdates ==
    [][IngestionStep =>
          ReadsBack(_fetch_is_series(out.cik)', statement_is' \ statement_is)]_vars

(* EPS 1 on file for year 6, then re-ingested as 2 without a filing:       *)
(* latest_eps still answers 1                                              *)
C17_Witness ==
    /\ op = "latest_eps"
    /\ out = Some(ToFx(1))
    /\ \E r \in statement_is :
          r.fy = 6 /\ r.filing_id = None /\ r.eps_diluted = Some(2)
    /\ \A r \in statement_is : r.fy = 6
    /\ Cardinality(company) = 1

-----------------------------------------------------------------------------
(* Claims about the score ranges *)

InUnitRange(score) == score = None \/ (Get(score) >= 0 /\ Get(score) <= One)

(* C18: for every store content the moat score of compute_moat and the     *)
(* management score of compute_management are each None or within [0, 1], *)
(* also with negative cash flow from operations, negative capex ratios or  *)
(* payout ratios far above the band.                                       *)
C18_ScoresInUnitRange ==
    /\ op = "compute_moat" => InUnitRange(out.score)
    /\ (op = "compute_management" /\ out.exc = "none") => InUnitRange(out.score)

(* A negative cash flow from operations with capex on file: the reinvest   *)
(* ratio is negative, its band score is x / 0.3 * 0.7 < 0 and so is the    *)
(* management score                                                        *)
C18_Witness ==
    /\ op = "compute_management"
    /\ out.exc = "none"
    /\ out.reinvest_ratio_avg # None /\ Get(out.reinvest_ratio_avg) < 0
    /\ out.score # None /\ Get(out.score) < 0

(* The moat score alone is within [0, 1] *)
C18_MoatScoreInUnitRange ==
    op = "compute_moat" => InUnitRange(out.score)

-----------------------------------------------------------------------------
(* Claims about compute_balance_sheet_resilience *)

(* The component scores of a result, in the order of the weights 0.4, 0.3, *)
(* 0.3, and the indices of those present                                   *)
ComponentScores(res) == <<res.coverage_score, res.debt_equity_score, res.trend_score>>

ComponentWeights == <<400, 300, 300>>

AvailableComponents(res) == {i \in 1..3 : ComponentScores(res)[i] # None}

RECURSIVE SumOver(_, _)
SumOver(f, I) ==
    IF I = {} THEN 0
    ELSE LET i == CHOOSE x \in I : TRUE IN f[i] + SumOver(f, I \ {i})

InResilienceRange(score) == score = None \/ (0 <= Get(score) /\ Get(score) <= 5 * One)

(* The data of the three components in the store: a year with an EBIT and  *)
(* a non-zero interest expense, the debt-to-equity ratio, three years with *)
(* a total debt and a cash balance                                         *)
CoverageHasData(cik) ==
    \E si \in JoinFiling(statement_is, cik) :
        si.ebit # None /\ si.interest_expense # None /\ Get(si.interest_expense) # 0

DebtEquityHasData(cik) == latest_debt_to_equity(cik) # None

NetDebtTrendHasData(cik) ==
    Cardinality({bs \in JoinFiling(statement_bs, cik) :
                    bs.total_debt # None /\ bs.cash # None}) >= 3

-----------------------------------------------------------------------------
(* Claims about the frame of the metric, score and valuation functions *)

CompanyReads ==
    {"compute_growth_metrics", "roic_series", "quality_scores", "compute_moat",
     "compute_management", "compute_balance_sheet_resilience",
     "compute_margin_of_safety_recommendation"}

(* What a call of function f for company cik returns on the current store *)
ReadResult(f, cik) ==
    CASE f = "compute_growth_metrics" -> compute_growth_metrics(cik)
      [] f = "roic_series" -> roic_series(cik)
      [] f = "quality_scores" -> quality_scores(cik)
      [] f = "compute_moat" -> compute_moat(cik)
      [] f = "compute_management" -> compute_management(cik)
      [] f = "compute_balance_sheet_resilience" -> compute_balance_sheet_resilience(cik)
      [] f = "compute_margin_of_safety_recommendation" ->
             margin_of_safety_recommendation_of(cik)

(* What the default scenario of a ticker returns on the current store *)
ScenarioResult(ticker) ==
    run_default_scenario(ticker, DefaultMosPct, None, DefaultPeCap, DefaultDiscount)

(* What the call recorded in op and inp returns on the current store *)
SameCallAgain ==
    IF op = "run_default_scenario"
    THEN run_default_scenario(inp.ticker, inp.mos_pct, inp.g_override, inp.pe_cap,
                              inp.discount)
    ELSE ReadResult(op, inp.cik)

(* C20: a call of one of the eight metric, score and valuation functions   *)
(* leaves every table of the store as it was (no scenario, score or other  *)
(* row is written), and the same call made again on the store it left      *)
(* returns a result equal to the one it returned. With the store unchanged *)
(* by every such call, this holds as well when calls for other companies   *)
(* come in between.                                                        *)
C20_ReadsLeaveStore ==
    /\ [](op \in CompanyReads \cup {"run_default_scenario"} => out = SameCallAgain)
    /\ [][op' \in CompanyReads \cup {"run_default_scenario"} => store' = store]_vars

(* A scenario computed for one of two companies whose scenarios differ,    *)
(* with a price snapshot on file                                           *)
C20_Witness ==
    /\ op = "run_default_scenario"
    /\ out.exc = "none"
    /\ price_snapshot # {}
    /\ Cardinality(company) = 2
    /\ ScenarioResult("AAA").exc = "none"
    /\ ScenarioResult("BBB").exc = "none"
    /\ ScenarioResult("AAA") # ScenarioResult("BBB")

-----------------------------------------------------------------------------
(* Claims about sequences of ingestions *)

(* The fiscal years of a series, in its order *)
SeriesYears(series) == [i \in 1..Len(series) |-> series[i].fy]

(* C21: whatever ingestions came before (repeated, of several tickers,     *)
(* alternating, complete or interrupted), the series _fetch_is_series and  *)
(* revenue_eps_series return for a company holds each fiscal year at most  *)
(* once, in ascending order: its fiscal years increase strictly.           *)
C21_SeriesYearsAscendOnce ==
    op \in {"_fetch_is_series", "revenue_eps_series"} =>
        \A i \in 1..(Len(out) - 1) : out[i].fy < out[i + 1].fy

(* A two-year series read after three ingestions that left a second       *)
(* income-statement row for one of its years and rows of another company   *)
C21_Witness ==
    /\ op \in {"_fetch_is_series", "revenue_eps_series"}
    /\ ingests = 3
    /\ SeriesYears(out) = <<5, 6>>
    /\ Cardinality(company) = 2
    /\ \E a \in statement_is, b \in statement_is :
          a.id # b.id /\ a.fy = b.fy /\ a \in JoinFiling(statement_is, inp.cik)
             /\ b.filing_id = None

-----------------------------------------------------------------------------
(* Claims about band_score *)

(* C22: band_score(x, low, high) returns 1.0 for x within [low, high],     *)
(* below low a score on the line through 0 at x = 0, and above high a      *)
(* score that decays linearly from 1.0 at high to exactly 0 at 2 * high    *)
(* and stays 0 beyond, for the reinvestment and for the payout band.       *)
C22_BandScoreShape ==
    op = "band_score" =>
        /\ out.exc = "none"
        /\ (inp.low <= inp.x /\ inp.x <= inp.high) => out.score = One
        /\ inp.x < inp.low =>
              /\ (inp.x = 0 <=> out.score = 0)
              /\ out.score < One
        /\ (inp.high < inp.x /\ inp.x < 2 * inp.high) =>
              out.score = One - FxDiv(inp.x - inp.high, inp.high)
        /\ inp.x >= 2 * inp.high => out.score = 0

(* a ratio of twice the upper end of the band is scored 0.5                *)
C22_Witness ==
    /\ op = "band_score"
    /\ inp.x = 2 * inp.high
    /\ out.exc = "none"
    /\ out.score = 500

-----------------------------------------------------------------------------
(* Claims about latest_owner_earnings_growth *)

OwnerEarningsYears(cik) ==
    LET series == owner_earnings_series(cik)
    IN  [i \in 1..Len(series) |-> series[i].fy]

OwnerEarningsValues(cik) ==
    LET series == owner_earnings_series(cik)
    IN  [i \in 1..Len(series) |-> series[i].owner_earnings]

(* C23: latest_owner_earnings_growth equals the five-year window CAGR of   *)
(* the full per-year owner-earnings series, for every series, those whose  *)
(* most recent years have no owner-earnings value included.                *)
C23_OwnerGrowthIsWindowCagr ==
    op = "latest_owner_earnings_growth" =>
        out = _calculate_window_cagr(OwnerEarningsYears(inp.cik),
                                     OwnerEarningsValues(inp.cik), 5)

(* the most recent year has no owner earnings and the two years before    *)
(* the window have: the function reports their growth, the window none     *)
C23_Witness ==
    /\ op = "latest_owner_earnings_growth"
    /\ OwnerEarningsYears(inp.cik) = <<0, 1, 6>>
    /\ OwnerEarningsValues(inp.cik) = <<Some(1), Some(3), None>>
    /\ out = cagr(Some(1), Some(3), 1)
    /\ out # None
    /\ _calculate_window_cagr(<<0, 1, 6>>, <<Some(1), Some(3), None>>, 5) = None

-----------------------------------------------------------------------------
(* Claims about the terminal P/E *)

(* C24: for every growth and every pe_cap a valuation request may carry,   *)
(* the terminal P/E of sticker_and_mos is 2 * g * 100 (g clamped to        *)
(* [0, 0.5]) clamped into [5, pe_cap]: never below 5, never above pe_cap.  *)
C24_TerminalPeWithinFiveAndCap ==
    (op = "sticker_and_mos" /\ "pe_cap" \in DOMAIN inp) =>
        LET pe_cap == Get(PyOr(inp.pe_cap, Some(DefaultPeCap)))
        IN  /\ out.terminal_pe >= ToFx(MinPE)
            /\ out.terminal_pe <= ToFx(pe_cap)

(* a request with pe_cap = 3 is valued at a terminal P/E of 3              *)
C24_Witness ==
    /\ op = "sticker_and_mos"
    /\ "pe_cap" \in DOMAIN inp
    /\ inp.pe_cap = Some(3)
    /\ inp.g = 100
    /\ out.terminal_pe = ToFx(3)

-----------------------------------------------------------------------------
(* Claims about the gross-margin trend *)

ThreeYearAverages(gm) ==
    SumSeq(LastN(gm, 3)) \div 3 - SumSeq(SubSeq(gm, 1, 3)) \div 3

(* C25 as stated: the gross-margin trend of compute_moat is the average of *)
(* the 3 most recent gross margins minus the average of the 3 oldest when  *)
(* at least 6 values are available, and the last value minus the first     *)
(* for 2 to 5 values.                                                      *)
C25_TrendFromTwoValues ==
    (op = "compute_moat" /\ "gm_values" \in DOMAIN inp) =>
        LET gm == inp.gm_values
            n  == Len(gm)
        IN  /\ n >= 6 => out.gross_margin_trend = Some(ThreeYearAverages(gm))
            /\ (2 <= n /\ n <= 5) => out.gross_margin_trend = Some(gm[n] - gm[1])

(* C25 amended: the gross-margin trend of compute_moat is the average of   *)
(* the 3 most recent gross margins minus the average of the 3 oldest when  *)
(* at least 6 values are available, the last value minus the first for 3   *)
(* to 5 values, and None for fewer than 3 values.                          *)
C25_TrendFromThreeValues ==
    (op = "compute_moat" /\ "gm_values" \in DOMAIN inp) =>
        LET gm == inp.gm_values
            n  == Len(gm)
        IN  /\ n >= 6 => out.gross_margin_trend = Some(ThreeYearAverages(gm))
            /\ (3 <= n /\ n <= 5) => out.gross_margin_trend = Some(gm[n] - gm[1])
            /\ n < 3 => out.gross_margin_trend = None

(* two different gross margins on file and no trend reported *)
C25_Witness ==
    /\ op = "compute_moat"
    /\ "gm_values" \in DOMAIN inp
    /\ inp.gm_values = <<200, 500>>
    /\ out.gross_margin_trend = None
    /\ out.latest_gross_margin = Some(500)

-----------------------------------------------------------------------------
(* Claims about evaluate_alerts *)

(* The valuation of the rule's ticker raises *)
ValuationFails(rule) ==
    run_default_scenario(rule.ticker, DefaultMosPct, None,
                         DefaultPeCap, DefaultDiscount).exc # "none"

(* The rule is due at price p *)
RuleDue(rule, p) ==
    /\ p # None
    /\ IF rule.rtype = "price_below_threshold"
       THEN rule.threshold # None /\ Get(p) < Get(rule.threshold)
       ELSE /\ rule.rtype = "price_below_mos"
            /\ \E val \in {run_default_scenario(rule.ticker, DefaultMosPct, None,
                                                  DefaultPeCap, DefaultDiscount)} :
                  val.exc = "none" /\ Get(p) < val.results.mos_price

(* C26: in every run of evaluate_alerts a price_below_mos rule whose       *)
(* valuation raises writes no note, every other enabled rule is still      *)
(* evaluated (a price_below_threshold rule triggers exactly when its       *)
(* threshold is not None and the price is strictly below it), and the      *)
(* returned count equals the number of notes the run writes.               *)
C26_AlertsIsolateValuationFailures ==
    [][op' = "evaluate_alerts" =>
          LET written == meaning_note' \ meaning_note
              Notes(cid, typ) == {n \in written : n.company_id = cid
                                                     /\ n.evidence_type = typ}
              Due(cid, typ) == {r \in EnabledRules :
                                   /\ r.rtype = typ
                                   /\ \E c \in company : c.id = cid /\ c.ticker = r.ticker
                                   /\ RuleDue(r, inp'.prices[r.rid])}
          IN  /\ meaning_note \subseteq meaning_note'
              /\ out'.triggered = Cardinality(written)
              /\ \A c \in company :
                    \A typ \in {"price_below_threshold", "price_below_mos"} :
                       Cardinality(Notes(c.id, typ)) = Cardinality(Due(c.id, typ))]_vars

(* a run in which the valuation of a price_below_mos rule raised at a      *)
(* quoted price, and a price_below_threshold rule triggered and wrote the  *)
(* only note                                                               *)
C26_Witness ==
    /\ op = "evaluate_alerts"
    /\ out.triggered = 1
    /\ Cardinality(meaning_note) = 1
    /\ \E r \in EnabledRules, s \in EnabledRules :
          /\ r.rtype = "price_below_mos"
          /\ inp.prices[r.rid] # None
          /\ ValuationFails(r)
          /\ s.rtype = "price_below_threshold"
          /\ inp.prices[s.rid] = Some(3000)
          /\ \E n \in meaning_note, c \in company :
                n.company_id = c.id /\ c.ticker = s.ticker
                   /\ n.evidence_type = "price_below_threshold"

-----------------------------------------------------------------------------
(* Claims about the width of the CAGR window *)

(* C27: _calculate_window_cagr(years, values, w) measures growth over a    *)
(* span of at most w - 1 fiscal years: its result, when there is one, is   *)
(* the cagr between two years of the series at most w - 1 apart; and       *)
(* rev_cagr_1y and eps_cagr_1y of compute_growth_metrics_extended are None *)
(* for every series of distinct ascending years.                           *)
C27_WindowSpanBelowWidth ==
    /\ op = "_calculate_window_cagr" =>
          (out # None =>
              \E i \in 1..Len(inp.years), j \in 1..Len(inp.years) :
                 /\ i < j
                 /\ inp.years[j] - inp.years[i] <= inp.window_years - 1
                 /\ out = cagr(inp.values[i], inp.values[j],
                               inp.years[j] - inp.years[i]))
    /\ op = "compute_growth_metrics_extended" =>
          out.rev_cagr_1y = None /\ out.eps_cagr_1y = None

(* three consecutive years, the revenue grown over them and the EPS level: *)
(* the 3-year figures are there and the 1-year figures are not             *)
C27_Witness ==
    /\ op = "compute_growth_metrics_extended"
    /\ SeriesColumn(inp.cik, "revenue").years = <<4, 5, 6>>
    /\ SeriesColumn(inp.cik, "revenue").values = <<Some(1), None, Some(2)>>
    /\ SeriesColumn(inp.cik, "eps").values = <<Some(2), Some(2), None>>
    /\ out.rev_cagr_3y = cagr(Some(1), Some(2), 2)
    /\ out.rev_cagr_3y # None
    /\ out.eps_cagr_3y = Some(0)
    /\ out.rev_cagr_1y = None
    /\ out.eps_cagr_1y = None

-----------------------------------------------------------------------------
(* Claims about the recovery of an interrupted ingestion *)

(* The fiscal years of which the table shows a row to the queries of cik *)
VisibleYears(table, cik) == {r.fy : r \in JoinFiling(table, cik)}

(* C28: when an ingestion of a ticker has run to completion, every fiscal  *)
(* year it covered has its income-statement, balance-sheet and cash-flow   *)
(* facts visible to the queries, also when an earlier ingestion of the     *)
(* ticker was interrupted after the year's filing row was written and      *)
(* before its three statement rows were.                                   *)
C28_CompleteIngestionShowsEveryYear ==
    (op = "ingest_companyfacts_richer_by_ticker" /\ "years" \in DOMAIN out) =>
        \A fy \in out.years :
           /\ fy \in VisibleYears(statement_is, out.cik)
           /\ fy \in VisibleYears(statement_bs, out.cik)
           /\ fy \in VisibleYears(statement_cf, out.cik)

(* the ingestion of AAA was interrupted in fiscal year 6 after the income  *)
(* statement row, a second ingestion ran to completion, and the year's     *)
(* balance sheet and cash flow are on file only in rows without a filing   *)
C28_Witness ==
    /\ op = "ingest_companyfacts_richer_by_ticker"
    /\ "years" \in DOMAIN out
    /\ ingests = 2
    /\ 6 \in out.years
    /\ \E f \in filing : f.accession = Accession(out.cik, 6)
    /\ 6 \in VisibleYears(statement_is, out.cik)
    /\ 6 \notin VisibleYears(statement_bs, out.cik)
    /\ 6 \notin VisibleYears(statement_cf, out.cik)
    /\ \E r \in statement_bs : r.fy = 6 /\ r.filing_id = None
    /\ \E r \in statement_cf : r.fy = 6 /\ r.filing_id = None

-----------------------------------------------------------------------------
(* Claims about the resolution of tickers *)

(* C29: a ticker that resolves to its company keeps resolving to it over   *)
(* every later successful ingestion, of whichever ticker, the tickers the  *)
(* SEC map assigns to the same CIK included.                               *)
C29_TickerKeepsResolving ==
    [][\A t \in DOMAIN TickerMap :
          resolve_cik_by_ticker(t) # None =>
              /\ resolve_cik_by_ticker(t)' = resolve_cik_by_ticker(t)
              /\ get_company_cik(t)' = get_company_cik(t)]_vars

(* AAA resolved when its price snapshot was taken, the share class AAX has *)
(* been ingested since, and get_company_cik("AAA") answers 404             *)
C29_Witness ==
    /\ op = "get_company_cik"
    /\ inp.ticker = "AAA"
    /\ out.status = 404
    /\ price_snapshot # {}
    /\ \E c \in company : c.cik = TickerMap["AAA"] /\ c.ticker = "AAX"

-----------------------------------------------------------------------------
(* Claims about refresh_meaning_analysis *)

(* C30: under every interleaving of refresh_meaning_analysis requests for  *)
(* the same company, at most one 'sec_10k_item1' meaning note is stored    *)
(* for the company within a 30-day period.                                 *)
C30_OneRecentMeaningNote ==
    \A c \in company : Cardinality(RecentMeaningNotes(c.cik)) <= 1

(* both workers have answered and two notes of the company are on file *)
C30_Witness ==
    /\ op = "refresh_meaning_analysis"
    /\ out.status = 200
    /\ \A w \in Workers : requests[w].pc = "idle"
    /\ \E c \in company : Cardinality(RecentMeaningNotes(c.cik)) = 2

====
